---- MODULE Spec2Model ----
(***************************************************************************)
(* Model of src/utils/pdfUtils.ts: the PDF operation orchestrator.  Each   *)
(* exported operation is one action; the helpers loadPdf, rasterizePdf and *)
(* getCleanPdfBytes are operators computed the way the code computes them. *)
(* The two external libraries (pdf-lib, PDF.js) are modelled by their      *)
(* contract at the call sites: an open either yields a document or throws  *)
(* an error object with a name and a message.                              *)
(***************************************************************************)
EXTENDS Integers, Sequences, FiniteSets, TLC

VARIABLES pdfjsLib, last, prev, chain

(* src/App.tsx: the route, the state of the mounted ToolPage (a record of
   its useState fields), the chained file of the App context, the operations
   in flight and how many were started, the encryption probes in flight, and
   what the last handler did (the alerts it raised, how an operation ended). *)
VARIABLES toolId, toolPage, processedFile, inFlight, started, probes, alerted, event

utilVars == <<pdfjsLib, last, prev, chain>>
appVars == <<toolId, toolPage, processedFile, inFlight, started, probes, alerted, event>>
vars == <<utilVars, appVars>>

(***************************************************************************)
(* Bounds of the model.                                                    *)
(***************************************************************************)
MaxPages == 2
MaxOrder == 3
MaxFiles == 2
MaxChain == 1

(***************************************************************************)
(* Strings: String.prototype.includes and toLowerCase, computed on the     *)
(* characters.                                                             *)
(***************************************************************************)
UpperChars == "ABCDEFGHIJKLMNOPQRSTUVWXYZ"
LowerChars == "abcdefghijklmnopqrstuvwxyz"

includes(s, sub) ==
    \E i \in 1..(Len(s) - Len(sub) + 1) : SubSeq(s, i, i + Len(sub) - 1) = sub

LowerChar(c) ==
    IF \E k \in 1..26 : SubSeq(UpperChars, k, k) = c
    THEN LET k == CHOOSE k \in 1..26 : SubSeq(UpperChars, k, k) = c
         IN  SubSeq(LowerChars, k, k)
    ELSE c

(* toLowerCase left out: the message is searched as it is. *)
toLowerCaseSkipped(s) == s

RECURSIVE toLowerCase(_)
toLowerCase(s) ==
    IF Len(s) = 0 THEN ""
    ELSE IF Len(s) = 1 THEN LowerChar(s)
    ELSE LET half == Len(s) \div 2
         IN  toLowerCase(SubSeq(s, 1, half)) \o toLowerCase(SubSeq(s, half + 1, Len(s)))

(***************************************************************************)
(* Values.  A password argument is <<>> (undefined) or <<p>>.  An error    *)
(* object has a name, a message and the place that constructed it.         *)
(***************************************************************************)
Undefined == <<>>
Truthy(password) == password # Undefined /\ password[1] # ""

Err(name, message, origin) == [name |-> name, message |-> message, origin |-> origin]
NoErr == Err("", "", "none")

(* The outcome of opening a document: the opened pages, or the error thrown. *)
NoPages == <<>>
Ok(pages) == [ok |-> TRUE, pages |-> pages, err |-> NoErr]
Throw(e) == [ok |-> FALSE, pages |-> NoPages, err |-> e]

MsgUnsupported == "The password is correct, but this PDF uses an encryption format (likely AES-256 R6) not supported by the editing engine."
MsgIncorrect == "Incorrect password. Please double-check your password."
MsgGeneric == "Incorrect password or the file is encrypted with an unsupported format."
MsgNoEngine == "PDF engine not initialized."

(***************************************************************************)
(* Document bytes: structure, encryption scheme, document password, pages. *)
(* A page carries the content it shows, its stored /Rotate angle and       *)
(* whether its content is a raster image.                                  *)
(***************************************************************************)
Page(content, rot, raster) == [content |-> content, rot |-> rot, raster |-> raster]
Bytes(struct, enc, pw, pages) == [struct |-> struct, enc |-> enc, pw |-> pw, pages |-> pages]

(* PDFDocument.save(): a fresh, unencrypted serialization of the pages. *)
save(pages) == Bytes("ok", "none", "", pages)

InitAngles == {0, 270}
DocNames == {"A", "B"}

PagesOf(name, rots) == [i \in 1..Len(rots) |-> Page(<<name, i>>, rots[i], FALSE)]
RotSeqs(angles) == UNION {[1..n -> angles] : n \in 1..MaxPages}

PlainDocs == {Bytes("ok", "none", "", PagesOf(nm, r)) : nm \in DocNames, r \in RotSeqs(InitAngles)}
EncryptedDocs == {Bytes("ok", e, "pw", PagesOf("A", r)) : e \in {"rc4", "aes256"}, r \in RotSeqs({0})}
CorruptDoc == Bytes("corrupt", "none", "", NoPages)
InitDocs == PlainDocs \cup EncryptedDocs \cup {CorruptDoc}

PasswordArgs == {Undefined, <<"">>, <<"pw">>, <<"bad">>}

(***************************************************************************)
(* pdf-lib, PDFDocument.load(bytes, options): opens sound unencrypted      *)
(* documents and the encryption it supports when given the password;       *)
(* anything else throws the error the library chooses.                     *)
(***************************************************************************)
PrimaryErrors ==
    { Err("Error", "Input document to PDFDocument.load is encrypted.", "pdf-lib"),
      Err("Error", "Password incorrect", "pdf-lib"),
      Err("Error", "Unsupported Security Handler", "pdf-lib"),
      Err("Error", "Failed to parse PDF document: No PDF header found.", "pdf-lib"),
      Err("TypeError", "", "pdf-lib") }

PrimaryOpens(pdfBytes, options) ==
    /\ pdfBytes.struct = "ok"
    /\ \/ pdfBytes.enc = "none"
       \/ pdfBytes.enc = "rc4" /\ options = <<pdfBytes.pw>>

PDFDocumentLoad(pdfBytes, options, primaryErr) ==
    IF PrimaryOpens(pdfBytes, options) THEN Ok(pdfBytes.pages) ELSE Throw(primaryErr)

(* The errors the library may throw for these bytes and options. *)
PrimaryErrorsFor(pdfBytes, options) ==
    IF PrimaryOpens(pdfBytes, options) THEN {NoErr} ELSE PrimaryErrors

(***************************************************************************)
(* PDF.js, getDocument({data, password}).promise: opens every sound        *)
(* document whose password (if any) is given; PasswordException otherwise. *)
(***************************************************************************)
pdfjsGetDocument(data, password) ==
    IF data.struct # "ok"
      THEN Throw(Err("InvalidPDFException", "Invalid PDF structure.", "pdfjs"))
    ELSE IF data.enc = "none" \/ password = <<data.pw>>
      THEN Ok(data.pages)
    ELSE IF ~Truthy(password)
      THEN Throw(Err("PasswordException", "No password given", "pdfjs"))
    ELSE Throw(Err("PasswordException", "Incorrect Password", "pdfjs"))

(***************************************************************************)
(* loadPdf.  The result also records whether PDF.js was consulted and what *)
(* the primary library did.                                                *)
(***************************************************************************)
LoadResult(res, options, primary, consulted, secondary) ==
    [res |-> res, options |-> options, primary |-> primary, consulted |-> consulted,
     secondary |-> secondary]

(* Every password, the empty string too, is forwarded. *)
OptionsAlwaysForwarded(password) == password

(* line 30: the password is forwarded only when it is a non-empty string. *)
Options(password) == IF Truthy(password) THEN password ELSE Undefined

NotConsulted == Throw(NoErr)

IsEncryptionMessage(msg) ==
    includes(msg, "encrypted") \/ includes(msg, "password") \/ includes(msg, "security handler")

(* Every message an error object of the model can carry, and the three
   string tests of the code evaluated on each of them (computed once). *)
PdfJsErrors ==
    { Err("InvalidPDFException", "Invalid PDF structure.", "pdfjs"),
      Err("PasswordException", "No password given", "pdfjs"),
      Err("PasswordException", "Incorrect Password", "pdfjs") }

Messages ==
    {e.message : e \in PrimaryErrors \cup PdfJsErrors}
      \cup {MsgUnsupported, MsgIncorrect, MsgGeneric, MsgNoEngine, ""}

(* line 33, 36: (e.message || '').toLowerCase() contains one of the three keywords *)
mentionsEncryption ==
    LET found == {m \in Messages : IsEncryptionMessage(toLowerCase(m))}
    IN  [m \in Messages |-> m \in found]
(* line 58, 150: message.includes('editing engine') *)
mentionsEditingEngine ==
    LET found == {m \in Messages : includes(m, "editing engine")}
    IN  [m \in Messages |-> m \in found]
(* line 63: message.includes('Password') *)
mentionsPassword ==
    LET found == {m \in Messages : includes(m, "Password")}
    IN  [m \in Messages |-> m \in found]

(* The inner catch without its rethrow of the error thrown at line 55. *)
SecondaryCheckNoRethrow(pdfBytes, password) ==
    LET opened == pdfjsGetDocument(pdfBytes, password)
        pdfJsErr == IF opened.ok THEN Err("Error", MsgUnsupported, "loadPdf") ELSE opened.err
    IN  IF pdfJsErr.name = "PasswordException" \/ mentionsPassword[pdfJsErr.message]
          THEN Throw(Err("Error", MsgIncorrect, "loadPdf"))
        ELSE Ok(NoPages)

(* The inner catch without its PasswordException branch. *)
SecondaryCheckNoPasswordBranch(pdfBytes, password) ==
    LET opened == pdfjsGetDocument(pdfBytes, password)
        pdfJsErr == IF opened.ok THEN Err("Error", MsgUnsupported, "loadPdf") ELSE opened.err
    IN  IF mentionsEditingEngine[pdfJsErr.message]
          THEN Throw(pdfJsErr)
        ELSE Ok(NoPages)

(* The inner try/catch of loadPdf (lines 43-66): the error it throws, or
   Ok when the catch block ends without throwing. *)
SecondaryCheck(pdfBytes, password) ==
    LET opened == pdfjsGetDocument(pdfBytes, password)
        pdfJsErr == IF opened.ok THEN Err("Error", MsgUnsupported, "loadPdf") ELSE opened.err
    IN  IF mentionsEditingEngine[pdfJsErr.message]
          THEN Throw(pdfJsErr)
        ELSE IF pdfJsErr.name = "PasswordException" \/ mentionsPassword[pdfJsErr.message]
          THEN Throw(Err("Error", MsgIncorrect, "loadPdf"))
        ELSE Ok(NoPages)

(* loadPdf without the throw of line 71: an unverified encryption failure
   reaches the final `throw e`. *)
loadPdfNoGeneric(pdfBytes, password, pdfjs, primaryErr) ==
    LET options == Options(password)
        primary == PDFDocumentLoad(pdfBytes, options, primaryErr)
        check   == SecondaryCheck(pdfBytes, password)
    IN  IF primary.ok
          THEN LoadResult(primary, options, primary, FALSE, NotConsulted)
        ELSE IF mentionsEncryption[primary.err.message] /\ Truthy(password) /\ pdfjs
          THEN LoadResult(IF check.ok THEN primary ELSE check, options,
                          primary, TRUE, pdfjsGetDocument(pdfBytes, password))
        ELSE LoadResult(primary, options, primary, FALSE, NotConsulted)

loadPdf(pdfBytes, password, pdfjs, primaryErr) ==
    LET options == Options(password)
        primary == PDFDocumentLoad(pdfBytes, options, primaryErr)
        check   == SecondaryCheck(pdfBytes, password)
        generic == Throw(Err("Error", MsgGeneric, "loadPdf"))
    IN  IF primary.ok
          THEN LoadResult(primary, options, primary, FALSE, NotConsulted)
        ELSE IF mentionsEncryption[primary.err.message]
          THEN IF Truthy(password) /\ pdfjs
                 THEN LoadResult(IF check.ok THEN generic ELSE check, options,
                                 primary, TRUE, pdfjsGetDocument(pdfBytes, password))
                 ELSE LoadResult(generic, options, primary, FALSE, NotConsulted)
        ELSE LoadResult(primary, options, primary, FALSE, NotConsulted)

(***************************************************************************)
(* pdf-lib page operations: indices are zero-based, copyPages returns one  *)
(* fresh copy per index in index order (a repeated index gives two         *)
(* independent copies), addPage appends.                                   *)
(***************************************************************************)
getPageIndices(pages) == [i \in 1..Len(pages) |-> i - 1]
copyPages(srcPages, indices) == [k \in 1..Len(indices) |-> srcPages[indices[k] + 1]]
addPage(docPages, page) == Append(docPages, page)

RECURSIVE addPages(_, _, _)
addPages(docPages, copiedPages, k) ==
    IF k > Len(copiedPages) THEN docPages
    ELSE addPages(addPage(docPages, copiedPages[k]), copiedPages, k + 1)

(* page.setRotation(degrees(angle)): stores the angle as given. *)
setRotation(page, angle) == [page EXCEPT !.rot = angle]

(* The outcome of an operation that returns bytes. *)
NoBytes == Bytes("none", "none", "", NoPages)
Return(bytes) == [ok |-> TRUE, bytes |-> bytes, err |-> NoErr]
Raise(e) == [ok |-> FALSE, bytes |-> NoBytes, err |-> e]

(***************************************************************************)
(* rasterizePdf: open with PDF.js, render pages 1..N in order, one image   *)
(* page per source page in a new document.                                 *)
(***************************************************************************)
RECURSIVE RasterizeLoop(_, _, _)
RasterizeLoop(srcPages, i, newPages) ==
    IF i > Len(srcPages) THEN newPages
    ELSE RasterizeLoop(srcPages, i + 1,
                       addPage(newPages, Page(srcPages[i].content, 0, TRUE)))

(* rasterizePdf with its page loop started one page late. *)
rasterizePdfFromSecondPage(pdfBytes, password, pdfjs) ==
    IF ~pdfjs THEN Raise(Err("Error", MsgNoEngine, "rasterizePdf"))
    ELSE LET pdf == pdfjsGetDocument(pdfBytes, password)
         IN  IF pdf.ok THEN Return(save(RasterizeLoop(pdf.pages, 2, NoPages)))
             ELSE Raise(pdf.err)

rasterizePdf(pdfBytes, password, pdfjs) ==
    IF ~pdfjs THEN Raise(Err("Error", MsgNoEngine, "rasterizePdf"))
    ELSE LET pdf == pdfjsGetDocument(pdfBytes, password)
         IN  IF pdf.ok THEN Return(save(RasterizeLoop(pdf.pages, 1, NoPages)))
             ELSE Raise(pdf.err)

(***************************************************************************)
(* getCleanPdfBytes: load, copy every page into a new document, save; on   *)
(* an error whose message mentions the editing engine, rasterize instead.  *)
(***************************************************************************)
CleanResult(res, load, rasterized) == [res |-> res, load |-> load, rasterized |-> rasterized]

(* getCleanPdfBytes without the fallback branch of its catch. *)
getCleanPdfBytesNoFallback(pdfBytes, password, pdfjs, primaryErr) ==
    LET load == loadPdf(pdfBytes, password, pdfjs, primaryErr)
    IN  IF load.res.ok
          THEN LET copiedPages == copyPages(load.res.pages, getPageIndices(load.res.pages))
               IN  CleanResult(Return(save(addPages(NoPages, copiedPages, 1))), load, FALSE)
        ELSE CleanResult(Raise(load.res.err), load, FALSE)

getCleanPdfBytes(pdfBytes, password, pdfjs, primaryErr) ==
    LET load == loadPdf(pdfBytes, password, pdfjs, primaryErr)
        e    == load.res.err
    IN  IF load.res.ok
          THEN LET copiedPages == copyPages(load.res.pages, getPageIndices(load.res.pages))
               IN  CleanResult(Return(save(addPages(NoPages, copiedPages, 1))), load, FALSE)
        ELSE IF mentionsEditingEngine[e.message]
          THEN CleanResult(rasterizePdf(pdfBytes, password, pdfjs), load, TRUE)
        ELSE CleanResult(Raise(e), load, FALSE)

(***************************************************************************)
(* State: whether window.pdfjsLib is present, the last completed call of   *)
(* an operation (NoCall when the orchestrator is idle) and, when that call *)
(* was given the output of the call before it, that earlier call and the   *)
(* length of the chain.                                                    *)
(***************************************************************************)
NoLoad == LoadResult(Throw(NoErr), Undefined, Throw(NoErr), FALSE, NotConsulted)
NoCall == [op |-> "none"]
NoRotations == [k \in {} |-> 0]

Call(op, files, password, rotation, pageOrder, rotations, load, rasterized, res) ==
    [op |-> op, files |-> files, password |-> password, rotation |-> rotation,
     pageOrder |-> pageOrder, rotations |-> rotations, load |-> load,
     rasterized |-> rasterized, res |-> res]

(* The App at the home page: no ToolPage is mounted. *)
NoResult == [fileName |-> ""]
NoFile == [name |-> ""]

(* useState initial values of ToolPage, lines 161-179; pending holds the
   continuations of the page's checkAndLoadPageInfo, loadPageInfo and
   handleInputPasswordSubmit calls that still await something. *)
InitialToolPage ==
    [files |-> <<>>, customFileName |-> "", password |-> "", htmlUrl |-> "",
     isEncryptedInput |-> FALSE, isProcessing |-> FALSE, result |-> NoResult,
     inputPassword |-> "", rotation |-> 0, pages |-> <<>>, numPages |-> 0,
     pageRotations |-> NoRotations, loadingThumbnails |-> FALSE, pending |-> <<>>]

InitApp ==
    /\ toolId = ""
    /\ toolPage = InitialToolPage
    /\ processedFile = NoFile
    /\ inFlight = <<>>
    /\ started = 0
    /\ probes = 0
    /\ alerted = <<>>
    /\ event = "none"

Init ==
    /\ pdfjsLib \in BOOLEAN
    /\ last = NoCall
    /\ prev = NoCall
    /\ chain = 0
    /\ InitApp

Idle == last = NoCall

(* A call on fresh input bytes. *)
Fresh(call) ==
    /\ last' = call
    /\ prev' = NoCall
    /\ chain' = 0
    /\ UNCHANGED pdfjsLib
    /\ UNCHANGED appVars

(* compressPdf: load, then save without object streams. *)
compressPdf(pdfBytes, password, pdfjs, primaryErr) ==
    LET load == loadPdf(pdfBytes, password, pdfjs, primaryErr)
    IN  Call("compressPdf", <<pdfBytes>>, password, 0, <<>>, NoRotations, load, FALSE,
             IF load.res.ok THEN Return(save(load.res.pages)) ELSE Raise(load.res.err))

CallCompressPdf ==
    /\ Idle
    /\ \E pdfBytes \in InitDocs, password \in PasswordArgs :
         \E primaryErr \in PrimaryErrorsFor(pdfBytes, Options(password)) :
           Fresh(compressPdf(pdfBytes, password, pdfjsLib, primaryErr))

(* unlockPdf: exactly getCleanPdfBytes. *)
unlockPdf(pdfBytes, password, pdfjs, primaryErr) ==
    LET clean == getCleanPdfBytes(pdfBytes, password, pdfjs, primaryErr)
    IN  Call("unlockPdf", <<pdfBytes>>, password, 0, <<>>, NoRotations,
             clean.load, clean.rasterized, clean.res)

CallUnlockPdf ==
    /\ Idle
    /\ \E pdfBytes \in InitDocs, password \in PasswordArgs :
         \E primaryErr \in PrimaryErrorsFor(pdfBytes, Options(password)) :
           Fresh(unlockPdf(pdfBytes, password, pdfjsLib, primaryErr))

(***************************************************************************)
(* mergePdfs: open each input with no options, in input order, and append  *)
(* its pages; the first input that fails to open ends the call with the    *)
(* library's error.                                                        *)
(***************************************************************************)
(* The merge loop putting each file's pages in front of those merged so far. *)
RECURSIVE MergeLoopPrepends(_, _, _, _)
MergeLoopPrepends(files, i, mergedPages, primaryErr) ==
    IF i > Len(files) THEN Return(save(mergedPages))
    ELSE LET pdf == PDFDocumentLoad(files[i], Undefined, primaryErr)
         IN  IF pdf.ok
               THEN LET copiedPages == copyPages(pdf.pages, getPageIndices(pdf.pages))
                    IN  MergeLoopPrepends(files, i + 1, addPages(copiedPages, mergedPages, 1), primaryErr)
             ELSE Raise(pdf.err)

RECURSIVE MergeLoop(_, _, _, _)
MergeLoop(files, i, mergedPages, primaryErr) ==
    IF i > Len(files) THEN Return(save(mergedPages))
    ELSE LET pdf == PDFDocumentLoad(files[i], Undefined, primaryErr)
         IN  IF pdf.ok
               THEN LET copiedPages == copyPages(pdf.pages, getPageIndices(pdf.pages))
                    IN  MergeLoop(files, i + 1, addPages(mergedPages, copiedPages, 1), primaryErr)
             ELSE Raise(pdf.err)

mergePdfs(files, primaryErr) ==
    Call("mergePdfs", files, Undefined, 0, <<>>, NoRotations, NoLoad, FALSE,
         MergeLoop(files, 1, NoPages, primaryErr))

FileLists == UNION {[1..n -> InitDocs] : n \in 0..MaxFiles}

CallMergePdfs ==
    /\ Idle
    /\ \E files \in FileLists :
         \E primaryErr \in (IF \A i \in 1..Len(files) : PrimaryOpens(files[i], Undefined)
                            THEN {NoErr} ELSE PrimaryErrors) :
           Fresh(mergePdfs(files, primaryErr))

(***************************************************************************)
(* rotatePdf: load, add the delta to every page's current angle, save.     *)
(***************************************************************************)
Deltas == {-270, -180, -90, 0, 90, 180, 270}

(* Rotation set as an absolute angle instead of added to the current one. *)
RotateAllAbsolute(pages, rotation) ==
    [i \in 1..Len(pages) |-> setRotation(pages[i], rotation)]

RotateAll(pages, rotation) ==
    [i \in 1..Len(pages) |-> setRotation(pages[i], pages[i].rot + rotation)]

rotatePdf(pdfBytes, rotation, password, pdfjs, primaryErr) ==
    LET load == loadPdf(pdfBytes, password, pdfjs, primaryErr)
    IN  Call("rotatePdf", <<pdfBytes>>, password, rotation, <<>>, NoRotations, load, FALSE,
             IF load.res.ok THEN Return(save(RotateAll(load.res.pages, rotation)))
             ELSE Raise(load.res.err))

CallRotatePdf ==
    /\ Idle
    /\ \E pdfBytes \in InitDocs, rotation \in Deltas, password \in PasswordArgs :
         \E primaryErr \in PrimaryErrorsFor(pdfBytes, Options(password)) :
           Fresh(rotatePdf(pdfBytes, rotation, password, pdfjsLib, primaryErr))

(* rotatePdf on the bytes the previous rotatePdf returned. *)
CallRotatePdfAgain ==
    /\ last.op = "rotatePdf"
    /\ last.res.ok
    /\ chain < MaxChain
    /\ \E rotation \in Deltas, password \in PasswordArgs :
         \E primaryErr \in PrimaryErrorsFor(last.res.bytes, Options(password)) :
           /\ last' = rotatePdf(last.res.bytes, rotation, password, pdfjsLib, primaryErr)
           /\ prev' = last
           /\ chain' = chain + 1
           /\ UNCHANGED pdfjsLib
           /\ UNCHANGED appVars

(***************************************************************************)
(* organizePdf: load, copy the pages named by pageOrder, add rotations[k]  *)
(* (k the zero-based output position) when it is not 0, append.            *)
(***************************************************************************)
RotationValues == {90, 270}
RotationMaps == UNION {[K -> RotationValues] : K \in SUBSET (0..(MaxOrder - 1))}
PageOrders(n) == UNION {[1..m -> 0..(n - 1)] : m \in 0..MaxOrder}

(* The rotation map read with one-based positions. *)
RotationAtOneBased(rotations, index) ==
    IF (index + 1) \in DOMAIN rotations THEN rotations[index + 1] ELSE 0

RotationAt(rotations, index) == IF index \in DOMAIN rotations THEN rotations[index] ELSE 0

OrganizePage(page, rotation) ==
    IF rotation # 0 THEN setRotation(page, page.rot + rotation) ELSE page

RECURSIVE OrganizeLoop(_, _, _, _)
OrganizeLoop(copiedPages, rotations, k, newPages) ==
    IF k > Len(copiedPages) THEN newPages
    ELSE OrganizeLoop(copiedPages, rotations, k + 1,
                      addPage(newPages, OrganizePage(copiedPages[k], RotationAt(rotations, k - 1))))

(* organizePdf copying every source page in document order, whatever pageOrder says. *)
organizePdfAllPages(pdfBytes, pageOrder, rotations, password, pdfjs, primaryErr) ==
    LET load == loadPdf(pdfBytes, password, pdfjs, primaryErr)
    IN  Call("organizePdf", <<pdfBytes>>, password, 0, pageOrder, rotations, load, FALSE,
             IF load.res.ok
               THEN Return(save(OrganizeLoop(copyPages(load.res.pages, getPageIndices(load.res.pages)),
                                             rotations, 1, NoPages)))
             ELSE Raise(load.res.err))

organizePdf(pdfBytes, pageOrder, rotations, password, pdfjs, primaryErr) ==
    LET load == loadPdf(pdfBytes, password, pdfjs, primaryErr)
    IN  Call("organizePdf", <<pdfBytes>>, password, 0, pageOrder, rotations, load, FALSE,
             IF load.res.ok
               THEN Return(save(OrganizeLoop(copyPages(load.res.pages, pageOrder), rotations, 1, NoPages)))
             ELSE Raise(load.res.err))

CallOrganizePdf ==
    /\ Idle
    /\ \E pdfBytes \in InitDocs, password \in PasswordArgs, rotations \in RotationMaps :
         \E pageOrder \in PageOrders(Len(pdfBytes.pages)) :
           \E primaryErr \in PrimaryErrorsFor(pdfBytes, Options(password)) :
             Fresh(organizePdf(pdfBytes, pageOrder, rotations, password, pdfjsLib, primaryErr))

(***************************************************************************)
(* protectPdf: clean bytes with the old password, then encryptPDF with the *)
(* new password as user and owner password; empty output is an error.      *)
(* encryptPDF (pdf-encrypt-lite) returns encrypted bytes, in a scheme the   *)
(* editing library may or may not read back, or empty or missing output.   *)
(***************************************************************************)
MsgEncryptionFailed == "Encryption failed: Output is empty."
EncryptOutcomes == {"rc4", "aes256", "empty", "missing"}
NewPasswords == {"pw", "new"}

EmptyBytes == Bytes("empty", "none", "", NoPages)
MissingBytes == Bytes("missing", "none", "", NoPages)

encryptPDF(bytes, userPassword, ownerPassword, outcome) ==
    IF outcome = "missing" THEN MissingBytes
    ELSE IF outcome = "empty" THEN EmptyBytes
    ELSE Bytes("ok", outcome, userPassword, bytes.pages)

(* line 257: !encryptedBytes || encryptedBytes.length === 0 *)
IsMissingOrEmpty(bytes) == bytes.struct = "missing" \/ bytes.struct = "empty"

(* protectPdf without the check of lines 257-259. *)
protectPdfUnchecked(pdfBytes, password, oldPassword, pdfjs, primaryErr, outcome) ==
    LET clean == getCleanPdfBytes(pdfBytes, oldPassword, pdfjs, primaryErr)
        encryptedBytes == encryptPDF(clean.res.bytes, password, password, outcome)
    IN  Call("protectPdf", <<pdfBytes>>, oldPassword, 0, <<>>, NoRotations,
             clean.load, clean.rasterized,
             IF ~clean.res.ok THEN Raise(clean.res.err) ELSE Return(encryptedBytes))
          @@ [newPassword |-> password, clean |-> clean.res,
              encryptArgs |-> IF clean.res.ok THEN <<clean.res.bytes, password, password>> ELSE <<>>,
              outcome |-> outcome]

protectPdf(pdfBytes, password, oldPassword, pdfjs, primaryErr, outcome) ==
    LET clean == getCleanPdfBytes(pdfBytes, oldPassword, pdfjs, primaryErr)
        encryptedBytes == encryptPDF(clean.res.bytes, password, password, outcome)
    IN  Call("protectPdf", <<pdfBytes>>, oldPassword, 0, <<>>, NoRotations,
             clean.load, clean.rasterized,
             IF ~clean.res.ok THEN Raise(clean.res.err)
             ELSE IF IsMissingOrEmpty(encryptedBytes)
               THEN Raise(Err("Error", MsgEncryptionFailed, "protectPdf"))
             ELSE Return(encryptedBytes))
          @@ [newPassword |-> password, clean |-> clean.res,
              encryptArgs |-> IF clean.res.ok THEN <<clean.res.bytes, password, password>> ELSE <<>>,
              outcome |-> outcome]

(* The outcomes of encryptPDF that can matter: none when it is not reached. *)
EncryptOutcomesFor(pdfBytes, oldPassword, pdfjs, primaryErr) ==
    IF getCleanPdfBytes(pdfBytes, oldPassword, pdfjs, primaryErr).res.ok
    THEN EncryptOutcomes ELSE {"rc4"}

CallProtectPdf ==
    /\ Idle
    /\ \E pdfBytes \in InitDocs, password \in NewPasswords, oldPassword \in PasswordArgs :
         \E primaryErr \in PrimaryErrorsFor(pdfBytes, Options(oldPassword)) :
           \E outcome \in EncryptOutcomesFor(pdfBytes, oldPassword, pdfjsLib, primaryErr) :
             Fresh(protectPdf(pdfBytes, password, oldPassword, pdfjsLib, primaryErr, outcome))

(* unlockPdf on the bytes the previous protectPdf returned. *)
CallUnlockPdfAgain ==
    /\ last.op = "protectPdf"
    /\ last.res.ok
    /\ chain < MaxChain
    /\ \E password \in PasswordArgs \cup {<<last.newPassword>>} :
         \E primaryErr \in PrimaryErrorsFor(last.res.bytes, Options(password)) :
           /\ last' = unlockPdf(last.res.bytes, password, pdfjsLib, primaryErr)
           /\ prev' = last
           /\ chain' = chain + 1
           /\ UNCHANGED pdfjsLib
           /\ UNCHANGED appVars

(***************************************************************************)
(* Promises of a value: resolved with the value or rejected with an error. *)
(***************************************************************************)
Resolve(value) == [ok |-> TRUE, value |-> value, err |-> NoErr]
Reject(e) == [ok |-> FALSE, err |-> e]

(* readFileAsArrayBuffer: the bytes of the File, or the FileReader's error
   event when the read fails. *)
File(bytes, readable) == [data |-> bytes, readable |-> readable]
PdfFiles == { File(bytes, readable) : bytes \in InitDocs, readable \in BOOLEAN }
ReadError == Err("ProgressEvent", "", "FileReader")

readFileAsArrayBuffer(file) ==
    IF file.readable THEN Resolve(file.data) ELSE Reject(ReadError)

(***************************************************************************)
(* checkPdfPassword: false without PDF.js; read the file; true when        *)
(* opening it with no password throws a PasswordException, false otherwise.*)
(***************************************************************************)
checkPdfPassword(file, pdfjs) ==
    LET arrayBuffer == readFileAsArrayBuffer(file)
        pdf == pdfjsGetDocument(arrayBuffer.value, Undefined)
    IN  [op |-> "checkPdfPassword", file |-> file,
         res |-> IF ~pdfjs THEN Resolve(FALSE)
                 ELSE IF ~arrayBuffer.ok THEN Reject(arrayBuffer.err)
                 ELSE IF pdf.ok THEN Resolve(FALSE)
                 ELSE IF pdf.err.name = "PasswordException" THEN Resolve(TRUE)
                 ELSE Resolve(FALSE)]

CallCheckPdfPassword ==
    /\ Idle
    /\ \E file \in PdfFiles : Fresh(checkPdfPassword(file, pdfjsLib))

(***************************************************************************)
(* generatePdfThumbnails: empty without PDF.js; open, render pages 1..N,   *)
(* collect one data URL per page; any error gives the empty list.          *)
(* failAt is the page whose getPage or render rejects, 0 for none.         *)
(***************************************************************************)
Thumbnail(page) == [content |-> page.content, scale |-> "0.5"]

RECURSIVE ThumbnailLoop(_, _, _, _)
ThumbnailLoop(pages, i, thumbnails, failAt) ==
    IF i > Len(pages) THEN [done |-> TRUE, thumbnails |-> thumbnails]
    ELSE IF i = failAt THEN [done |-> FALSE, thumbnails |-> thumbnails]
    ELSE ThumbnailLoop(pages, i + 1, Append(thumbnails, Thumbnail(pages[i])), failAt)

(* generatePdfThumbnails whose catch returns what was rendered so far. *)
generatePdfThumbnailsPartial(pdfBytes, password, pdfjs, failAt) ==
    LET pdf == pdfjsGetDocument(pdfBytes, password)
        loop == ThumbnailLoop(pdf.pages, 1, <<>>, failAt)
    IN  [op |-> "generatePdfThumbnails", files |-> <<pdfBytes>>,
         password |-> password, failAt |-> failAt,
         res |-> IF ~pdfjs THEN Resolve(<<>>)
                 ELSE IF ~pdf.ok THEN Resolve(<<>>)
                 ELSE Resolve(loop.thumbnails)]

generatePdfThumbnails(pdfBytes, password, pdfjs, failAt) ==
    LET pdf == pdfjsGetDocument(pdfBytes, password)
        loop == ThumbnailLoop(pdf.pages, 1, <<>>, failAt)
    IN  [op |-> "generatePdfThumbnails", files |-> <<pdfBytes>>,
         password |-> password, failAt |-> failAt,
         res |-> IF ~pdfjs THEN Resolve(<<>>)
                 ELSE IF ~pdf.ok THEN Resolve(<<>>)
                 ELSE IF loop.done THEN Resolve(loop.thumbnails)
                 ELSE Resolve(<<>>)]

(* The pages whose rendering can fail: none when the loop is not reached. *)
RenderFailuresFor(pdfBytes, password, pdfjs) ==
    IF pdfjs /\ pdfjsGetDocument(pdfBytes, password).ok
    THEN 0..Len(pdfBytes.pages) ELSE {0}

CallGeneratePdfThumbnails ==
    /\ Idle
    /\ \E pdfBytes \in InitDocs, password \in PasswordArgs :
         \E failAt \in RenderFailuresFor(pdfBytes, password, pdfjsLib) :
           Fresh(generatePdfThumbnails(pdfBytes, password, pdfjsLib, failAt))

(***************************************************************************)
(* Numbers of the page layout, as exact fractions <<n, d>> in lowest terms *)
(* with d > 0 (PageSizes.A4 is [595.28, 841.89]).                          *)
(***************************************************************************)
RECURSIVE GCD(_, _)
GCD(a, b) == IF b = 0 THEN a ELSE GCD(b, a % b)

Abs(n) == IF n < 0 THEN -n ELSE n

Frac(n, d) == LET g == GCD(Abs(n), d) IN <<n \div g, d \div g>>
Num(k) == <<k, 1>>
(* a and b over their least common denominator *)
Common(a, b) ==
    LET g == GCD(a[2], b[2])
    IN  [a |-> a[1] * (b[2] \div g), b |-> b[1] * (a[2] \div g), d |-> (a[2] \div g) * b[2]]
Plus(a, b) == Frac(Common(a, b).a + Common(a, b).b, Common(a, b).d)
Minus(a, b) == Frac(Common(a, b).a - Common(a, b).b, Common(a, b).d)
Times(a, b) == Frac(a[1] * b[1], a[2] * b[2])
Over(a, b) == Frac(a[1] * b[2], a[2] * b[1])
LessEq(a, b) == Common(a, b).a <= Common(a, b).b
Min(a, b) == IF LessEq(a, b) THEN a ELSE b

(***************************************************************************)
(* createPdfFromImages: read each file; embed it as JPEG or PNG by its     *)
(* type or name, skipping other files and failed embeddings; add one page  *)
(* per embedded image, sized and scaled by the options, image centered.    *)
(***************************************************************************)
MaxImages == 2

endsWith(s, suffix) ==
    /\ Len(suffix) <= Len(s)
    /\ SubSeq(s, Len(s) - Len(suffix) + 1, Len(s)) = suffix

ImageData(format, width, height) == [format |-> format, width |-> width, height |-> height]
ImageFile(name, type, data, readable) ==
    [name |-> name, type |-> type, data |-> data, readable |-> readable]

ImageNames == {"a.jpg", "b.jpeg", "c.png", "d.gif"}
ImageTypes == {"image/jpeg", "image/png", ""}
ImageFormats == {"jpeg", "png"}
WidthOf == [name \in ImageNames |->
              CASE name = "a.jpg" -> 100 [] name = "b.jpeg" -> 1000
                [] name = "c.png" -> 400 [] OTHER -> 300]
HeightOf == [name \in ImageNames |->
               CASE name = "a.jpg" -> 50 [] name = "b.jpeg" -> 500
                 [] name = "c.png" -> 1200 [] OTHER -> 300]

ImageFiles ==
    { ImageFile(name, type, ImageData(format, WidthOf[name], HeightOf[name]), TRUE) :
        name \in ImageNames, type \in ImageTypes, format \in ImageFormats }
    \cup { ImageFile("d.gif", "", ImageData("png", 300, 300), FALSE) }

ImageLists == UNION { [1..n -> ImageFiles] : n \in 0..MaxImages }

ImageToPdfOptions ==
    [pageSize : {"A4", "Letter", "Fit"}, orientation : {"Portrait", "Landscape"}]

(* pdf-lib PageSizes *)
PageSizes == [A4 |-> <<Frac(59528, 100), Frac(84189, 100)>>,
              Letter |-> <<Num(612), Num(792)>>]

margin == Num(20)

(* lines 164-174: "jpg", "png" or "skip" by file.type and file.name *)
EmbedAs(file) ==
    IF file.type = "image/jpeg" \/ endsWith(file.name, ".jpg") \/ endsWith(file.name, ".jpeg")
      THEN "jpg"
    ELSE IF file.type = "image/png" \/ endsWith(file.name, ".png")
      THEN "png"
    ELSE "skip"

(* pdfDoc.embedJpg / embedPng: throw on bytes of another format *)
embedJpg(imageBytes) == imageBytes.format = "jpeg"
embedPng(imageBytes) == imageBytes.format = "png"

Embedded(file) ==
    \/ EmbedAs(file) = "jpg" /\ embedJpg(file.data)
    \/ EmbedAs(file) = "png" /\ embedPng(file.data)

(* line 194 without its third argument. *)
ScaleUncapped(availableWidth, availableHeight, imgWidth, imgHeight) ==
    Min(Over(availableWidth, imgWidth), Over(availableHeight, imgHeight))

Scale(availableWidth, availableHeight, imgWidth, imgHeight) ==
    Min(Min(Over(availableWidth, imgWidth), Over(availableHeight, imgHeight)), Num(1))

ImagePage(image, options) ==
    LET size == IF options.pageSize = "Letter" THEN PageSizes.Letter ELSE PageSizes.A4
        fit == options.pageSize = "Fit"
        pageWidth == IF fit THEN Num(image.width)
                     ELSE IF options.orientation = "Portrait" THEN size[1] ELSE size[2]
        pageHeight == IF fit THEN Num(image.height)
                      ELSE IF options.orientation = "Portrait" THEN size[2] ELSE size[1]
        availableWidth == Minus(pageWidth, Times(margin, Num(2)))
        availableHeight == Minus(pageHeight, Times(margin, Num(2)))
        scale == IF fit THEN Num(1)
                 ELSE Scale(availableWidth, availableHeight, Num(image.width), Num(image.height))
        imgWidth == Times(Num(image.width), scale)
        imgHeight == Times(Num(image.height), scale)
    IN  [image |-> image, size |-> <<pageWidth, pageHeight>>, scale |-> scale,
         x |-> Over(Minus(pageWidth, imgWidth), Num(2)),
         y |-> Over(Minus(pageHeight, imgHeight), Num(2)),
         width |-> imgWidth, height |-> imgHeight]

(* One iteration for a file that was read, with the continue of the catch
   block left out: a page is added for a failed embedding too. *)
ImageStepNoContinue(pages, file, options) ==
    IF EmbedAs(file) = "skip" THEN pages
    ELSE addPage(pages, ImagePage(file.data, options))

(* One iteration of the loop for a file that was read. *)
ImageStep(pages, file, options) ==
    IF Embedded(file) THEN addPage(pages, ImagePage(file.data, options)) ELSE pages

RECURSIVE ImageLoop(_, _, _, _)
ImageLoop(files, i, pages, options) ==
    IF i > Len(files) THEN Return(save(pages))
    ELSE IF ~readFileAsArrayBuffer(files[i]).ok
      THEN Raise(readFileAsArrayBuffer(files[i]).err)
    ELSE ImageLoop(files, i + 1, ImageStep(pages, files[i], options), options)

createPdfFromImages(files, options) ==
    [op |-> "createPdfFromImages", files |-> files, options |-> options,
     res |-> ImageLoop(files, 1, NoPages, options)]

CallCreatePdfFromImages ==
    /\ Idle
    /\ \E files \in ImageLists, options \in ImageToPdfOptions :
         Fresh(createPdfFromImages(files, options))

(* The caller is done with the result; nothing persists across calls. *)
Reset ==
    /\ ~Idle
    /\ last' = NoCall
    /\ prev' = NoCall
    /\ chain' = 0
    /\ UNCHANGED pdfjsLib
    /\ UNCHANGED appVars

Next ==
    \/ CallCompressPdf
    \/ CallUnlockPdf
    \/ CallMergePdfs
    \/ CallRotatePdf
    \/ CallRotatePdfAgain
    \/ CallOrganizePdf
    \/ CallProtectPdf
    \/ CallUnlockPdfAgain
    \/ CallCheckPdfPassword
    \/ CallGeneratePdfThumbnails
    \/ CallCreatePdfFromImages
    \/ Reset

Spec == Init /\ [][Next]_vars

(***************************************************************************)
(* rasterizePdf step by step (lines 82-134): each await of the function is *)
(* one step.  While the call runs, `last` is the frame of the call: the    *)
(* opened document, the loop counter i, the page fetched, what the canvas  *)
(* of this iteration shows, the image embedded from it and the pages added *)
(* to the new document so far.                                             *)
(***************************************************************************)
(* lines 83-91: the engine test and the await of loadingTask.promise *)
rasterizeOpen ==
    /\ Idle
    /\ \E pdfBytes \in InitDocs, password \in PasswordArgs :
         LET pdf == pdfjsGetDocument(pdfBytes, password)
             frame == [op |-> "rasterizePdf", files |-> <<pdfBytes>>, password |-> password,
                       pc |-> "getPage", src |-> NoPages, i |-> 1, page |-> <<>>,
                       canvas |-> <<>>, image |-> <<>>, newPages |-> NoPages,
                       res |-> Raise(NoErr)]
         IN  last' = IF ~pdfjsLib
                       THEN [frame EXCEPT !.pc = "thrown",
                                          !.res = Raise(Err("Error", MsgNoEngine, "rasterizePdf"))]
                     ELSE IF ~pdf.ok
                       THEN [frame EXCEPT !.pc = "thrown", !.res = Raise(pdf.err)]
                     ELSE [frame EXCEPT !.src = pdf.pages]
    /\ UNCHANGED <<pdfjsLib, prev, chain, appVars>>

(* lines 96-97: the loop test and await pdf.getPage(i); a new canvas *)
rasterizeGetPage ==
    /\ last.op = "rasterizePdf"
    /\ last.pc = "getPage"
    /\ last' = IF last.i <= Len(last.src)
                 THEN [last EXCEPT !.page = <<last.src[last.i]>>, !.canvas = <<>>,
                                   !.image = <<>>, !.pc = "render"]
               ELSE [last EXCEPT !.pc = "save"]
    /\ UNCHANGED <<pdfjsLib, prev, chain, appVars>>

(* line 106: await page.render(...).promise *)
rasterizeRender ==
    /\ last.op = "rasterizePdf"
    /\ last.pc = "render"
    /\ last' = [last EXCEPT !.canvas = <<last.page[1].content>>, !.pc = "embed"]
    /\ UNCHANGED <<pdfjsLib, prev, chain, appVars>>

(* lines 108-118: canvas.toDataURL, the base64 decoding, await embedPng *)
rasterizeEmbed ==
    /\ last.op = "rasterizePdf"
    /\ last.pc = "embed"
    /\ last' = [last EXCEPT !.image = last.canvas, !.pc = "addPage"]
    /\ UNCHANGED <<pdfjsLib, prev, chain, appVars>>

(* lines 123-129 with the new page put before the pages already added. *)
rasterizeAddPageInFront ==
    /\ last.op = "rasterizePdf"
    /\ last.pc = "addPage"
    /\ last' = [last EXCEPT !.newPages = <<Page(last.image[1], 0, TRUE)>> \o last.newPages,
                            !.i = last.i + 1, !.pc = "getPage"]
    /\ UNCHANGED <<pdfjsLib, prev, chain, appVars>>

(* lines 123-129: addPage, drawImage, and the i++ of the loop *)
rasterizeAddPage ==
    /\ last.op = "rasterizePdf"
    /\ last.pc = "addPage"
    /\ last' = [last EXCEPT !.newPages = addPage(last.newPages, Page(last.image[1], 0, TRUE)),
                            !.i = last.i + 1, !.pc = "getPage"]
    /\ UNCHANGED <<pdfjsLib, prev, chain, appVars>>

(* line 132: return await newPdfDoc.save() *)
rasterizeSave ==
    /\ last.op = "rasterizePdf"
    /\ last.pc = "save"
    /\ last' = [last EXCEPT !.res = Return(save(last.newPages)), !.pc = "done"]
    /\ UNCHANGED <<pdfjsLib, prev, chain, appVars>>

NextRaster ==
    \/ rasterizeOpen
    \/ rasterizeGetPage
    \/ rasterizeRender
    \/ rasterizeEmbed
    \/ rasterizeAddPage
    \/ rasterizeSave

SpecRaster == Init /\ [][NextRaster]_vars

(***************************************************************************)
(* getCleanPdfBytes step by step (lines 140-155): each await inside the    *)
(* try is one step, and each may throw; the catch is the last step.  While *)
(* the call runs, `last` is its frame: what loadPdf did, the pages of the  *)
(* new document, the error caught and the statement that threw it.         *)
(***************************************************************************)
(* What pdf-lib may throw from copyPages or save. *)
PageStepErrors ==
    { Err("TypeError", "", "pdf-lib"),
      Err("Error", "Failed to parse PDF document: No PDF header found.", "pdf-lib") }

(* line 142: await loadPdf(pdfBytes, password) *)
cleanLoad ==
    /\ Idle
    /\ \E pdfBytes \in InitDocs, password \in PasswordArgs :
         \E primaryErr \in PrimaryErrorsFor(pdfBytes, Options(password)) :
           LET load == loadPdf(pdfBytes, password, pdfjsLib, primaryErr)
               frame == [op |-> "getCleanPdfBytes", files |-> <<pdfBytes>>,
                         password |-> password, load |-> load, pc |-> "copy",
                         copiedPages |-> NoPages, newPages |-> NoPages, e |-> NoErr,
                         thrownBy |-> "none", rasterized |-> FALSE, res |-> Raise(NoErr)]
           IN  last' = IF load.res.ok THEN frame
                       ELSE [frame EXCEPT !.pc = "catch", !.e = load.res.err,
                                          !.thrownBy = "loadPdf"]
    /\ UNCHANGED <<pdfjsLib, prev, chain, appVars>>

(* lines 143-145: PDFDocument.create, getPageIndices, await copyPages *)
cleanCopy ==
    /\ last.op = "getCleanPdfBytes"
    /\ last.pc = "copy"
    /\ \/ last' = [last EXCEPT
                     !.copiedPages = copyPages(last.load.res.pages,
                                               getPageIndices(last.load.res.pages)),
                     !.pc = "save"]
       \/ \E e \in PageStepErrors :
            last' = [last EXCEPT !.pc = "catch", !.e = e, !.thrownBy = "copyPages"]
    /\ UNCHANGED <<pdfjsLib, prev, chain, appVars>>

(* lines 146-147: the addPage of every copied page, return await save() *)
cleanSave ==
    /\ last.op = "getCleanPdfBytes"
    /\ last.pc = "save"
    /\ LET newPages == addPages(NoPages, last.copiedPages, 1)
       IN  \/ last' = [last EXCEPT !.newPages = newPages, !.pc = "done",
                                   !.res = Return(save(newPages))]
           \/ \E e \in PageStepErrors :
                last' = [last EXCEPT !.newPages = newPages, !.pc = "catch", !.e = e,
                                     !.thrownBy = "save"]
    /\ UNCHANGED <<pdfjsLib, prev, chain, appVars>>

(* The catch of lines 148-154 rasterizing whatever was caught. *)
cleanCatchAlways ==
    /\ last.op = "getCleanPdfBytes"
    /\ last.pc = "catch"
    /\ last' = [last EXCEPT !.rasterized = TRUE, !.pc = "done",
                  !.res = rasterizePdf(last.files[1], last.password, pdfjsLib)]
    /\ UNCHANGED <<pdfjsLib, prev, chain, appVars>>

(* lines 148-154: the catch *)
cleanCatch ==
    /\ last.op = "getCleanPdfBytes"
    /\ last.pc = "catch"
    /\ last' = IF mentionsEditingEngine[last.e.message]
                 THEN [last EXCEPT !.rasterized = TRUE, !.pc = "done",
                         !.res = rasterizePdf(last.files[1], last.password, pdfjsLib)]
               ELSE [last EXCEPT !.pc = "thrown", !.res = Raise(last.e)]
    /\ UNCHANGED <<pdfjsLib, prev, chain, appVars>>

NextClean ==
    \/ cleanLoad
    \/ cleanCopy
    \/ cleanSave
    \/ cleanCatch

SpecClean == Init /\ [][NextClean]_vars

(***************************************************************************)
(* src/App.tsx: the tools, the ToolPage component and its handlers.  The   *)
(* utility a tool awaits is the environment of the handler: it resolves    *)
(* with bytes or rejects with one of the errors the utilities throw.       *)
(***************************************************************************)
MaxAppFiles == 1
MaxStarts == 2
MaxProbes == 1

ToolType ==
    [Merge |-> "merge", Split |-> "split", Compress |-> "compress",
     Protect |-> "protect", Unlock |-> "unlock", Rotate |-> "rotate",
     Organize |-> "organize", ImageToPdf |-> "image-to-pdf",
     HtmlToPdf |-> "html-to-pdf", Watermark |-> "watermark"]

TOOLS ==
    { ToolType.Unlock, ToolType.Protect, ToolType.Compress, ToolType.Organize,
      ToolType.ImageToPdf, ToolType.Merge, ToolType.Split, ToolType.Rotate,
      ToolType.Watermark, ToolType.HtmlToPdf }

(* The tool pages the model visits: Compress, Unlock, Rotate, Organize and
   Watermark go through the frame of Protect, less its password test. *)
VisitedTools ==
    { ToolType.Merge, ToolType.Split, ToolType.Protect,
      ToolType.ImageToPdf, ToolType.HtmlToPdf }

(* String.prototype.replace(sub, ''): the first occurrence is removed. *)
replaceFirst(s, sub) ==
    IF ~includes(s, sub) THEN s
    ELSE LET i == CHOOSE i \in 1..(Len(s) - Len(sub) + 1) :
                     /\ SubSeq(s, i, i + Len(sub) - 1) = sub
                     /\ \A j \in 1..(i - 1) : SubSeq(s, j, j + Len(sub) - 1) # sub
         IN  SubSeq(s, 1, i - 1) \o SubSeq(s, i + Len(sub), Len(s))

(* name.replace(/\.[^/.]+$/, ""): the last dot and what follows it, when at
   least one character follows and none of them is a slash. *)
removeExtension(s) ==
    LET dots == { i \in 1..Len(s) : SubSeq(s, i, i) = "." }
    IN  IF dots = {} THEN s
        ELSE LET i == CHOOSE i \in dots : \A j \in dots : j <= i
             IN  IF i = Len(s) \/ \E j \in (i + 1)..Len(s) : SubSeq(s, j, j) = "/"
                 THEN s ELSE SubSeq(s, 1, i - 1)

(* Files, and the bytes of a file: where they come from and whether PDF.js
   asks for a password to open them. *)
Data(from, locked) == [from |-> from, locked |-> locked]
AppFile(name, type, data) == [name |-> name, type |-> type, data |-> data]

PdfUploads ==
    { AppFile("a.pdf", "application/pdf", Data("disk", FALSE)),
      AppFile("B.PDF", "application/pdf", Data("disk", TRUE)) }
ImageUploads == { AppFile("c.d.png", "image/png", Data("disk", FALSE)) }
TypedNames == {"", "x.Pdf"}
TypedPasswords == {"", "pw"}
TypedUrls == {"", "https://e.x"}

(* The tools that show the pages of the file, and the files selected for
   them: the bytes of the file are a document of the model, and locked is
   what checkPdfPassword answers for it. *)
PageTools == { ToolType.Organize, ToolType.Rotate }

PageData(doc) ==
    [from |-> "disk", doc |-> doc,
     locked |-> LET pdf == pdfjsGetDocument(doc, Undefined)
                IN  ~pdf.ok /\ pdf.err.name = "PasswordException"]

FullPages(name) == PagesOf(name, [i \in 1..MaxPages |-> 0])

PageUploads ==
    { AppFile("a.pdf", "application/pdf", PageData(Bytes("ok", "none", "", FullPages("A")))),
      AppFile("b.pdf", "application/pdf", PageData(Bytes("ok", "none", "", PagesOf("B", <<0>>)))),
      AppFile("l.pdf", "application/pdf", PageData(Bytes("ok", "rc4", "pw", FullPages("A")))),
      AppFile("x.pdf", "application/pdf", PageData(Bytes("ok", "aes256", "pw", PagesOf("B", <<0>>)))) }

UploadsFor(tool) ==
    IF tool = ToolType.ImageToPdf THEN ImageUploads
    ELSE IF tool \in PageTools THEN PageUploads
    ELSE PdfUploads

MaxLoads == 1

(* An awaited call of the page: the function, and the file, the password and
   the toolId its closure holds. *)
Continuation(of, file, filePassword, tool) ==
    [of |-> of, file |-> file, filePassword |-> filePassword, toolId |-> tool]

(* The % of JavaScript: the result has the sign of the dividend. *)
JsRemainder(a, n) == IF a >= 0 THEN a % n ELSE 0 - ((0 - a) % n)

(* An operation in flight: the values its closure captured, and whether the
   ToolPage that started it is still mounted. *)
Operation(tool, outputName, mounted) ==
    [toolId |-> tool, outputName |-> outputName, mounted |-> mounted]

Handled(name, how, alerts) ==
    /\ event' = how
    /\ alerted' = alerts

(* lines 227-234: the effect on [files, toolId], run with the files and the
   name of the render that scheduled it *)
AutoName(tool, fileList) ==
    LET baseName == IF tool = ToolType.Merge THEN "merged"
                    ELSE IF tool = ToolType.ImageToPdf THEN "images"
                    ELSE removeExtension(fileList[1].name)
    IN  baseName \o "_processed"

EnsureFileName(tool, fileList, name) ==
    IF Len(fileList) > 0 /\ name = "" THEN AutoName(tool, fileList) ELSE name

(* lines 203-224 and 227-234 after toolId changed: both effects run with the
   state of the render before them (old), the second one's setCustomFileName
   being the later call; the next render runs the second effect once more. *)
ToolChanged(tool, old) ==
    LET chained == processedFile # NoFile
        first == [old EXCEPT
                    !.files = IF chained
                              THEN <<AppFile(processedFile.name, processedFile.type, processedFile.data)>>
                              ELSE <<>>,
                    !.result = NoResult,
                    !.password = "",
                    !.htmlUrl = "",
                    !.inputPassword = "",
                    !.isEncryptedInput = FALSE,
                    !.rotation = 0,
                    !.pages = <<>>,
                    !.customFileName =
                        IF Len(old.files) > 0 /\ old.customFileName = ""
                          THEN AutoName(tool, old.files)
                        ELSE IF chained
                          THEN replaceFirst(processedFile.name, ".pdf") \o "_processed"
                        ELSE ""]
    IN  [first EXCEPT !.customFileName = EnsureFileName(tool, first.files, first.customFileName)]

(* checkPdfPassword called for a file by checkAndLoadPageInfo (236-249) or
   handleFileUpload (300-302) will set the encrypted-input flag. *)
ProbeSetsFlag(tool, fileList) ==
    /\ Len(fileList) > 0
    /\ fileList[1].type = "application/pdf"
    /\ fileList[1].data.locked
    /\ tool # ToolType.Unlock

ProbesAfter(tool, fileList) == IF ProbeSetsFlag(tool, fileList) THEN probes + 1 ELSE probes

(* A tool card of the home page, lines 96-118, for one of the given tools. *)
OpenAmong(tools) ==
    /\ toolId = ""
    /\ \E tool \in TOOLS \cap tools :
         /\ toolId' = tool
         /\ toolPage' = ToolChanged(tool, InitialToolPage)
         /\ ProbesAfter(tool, toolPage'.files) <= MaxProbes
         /\ probes' = ProbesAfter(tool, toolPage'.files)
    /\ Handled("openTool", "none", <<>>)
    /\ UNCHANGED <<processedFile, inFlight, started, utilVars>>

OpenTool == OpenAmong(VisitedTools)

(* A link of the result screen, lines 754-768. *)
ChangeTool ==
    /\ toolId # ""
    /\ toolPage.result # NoResult
    /\ \E tool \in (TOOLS \cap VisitedTools) \ {toolId} :
         /\ toolId' = tool
         /\ toolPage' = ToolChanged(tool, toolPage)
         /\ ProbesAfter(tool, toolPage'.files) <= MaxProbes
         /\ probes' = ProbesAfter(tool, toolPage'.files)
    /\ Handled("changeTool", "none", <<>>)
    /\ UNCHANGED <<processedFile, inFlight, started, utilVars>>

(* A link to "/": ToolPage unmounts with its state, HomePage mounts and its
   effect (line 123) clears the chained file; promises in flight live on. *)
GoHome ==
    /\ toolId # ""
    /\ toolId' = ""
    /\ toolPage' = InitialToolPage
    /\ processedFile' = NoFile
    /\ inFlight' = [k \in 1..Len(inFlight) |-> [inFlight[k] EXCEPT !.mounted = FALSE]]
    /\ probes' = 0
    /\ Handled("goHome", "none", <<>>)
    /\ UNCHANGED <<started, utilVars>>

(* handleFileUpload, lines 289-304, and the effect of lines 227-234. *)
handleFileUpload ==
    /\ toolId \notin {"", ToolType.HtmlToPdf}
    /\ toolPage.result = NoResult
    /\ \E file \in UploadsFor(toolId) :
         LET updatedFiles == IF toolId \in {ToolType.Merge, ToolType.ImageToPdf}
                             THEN Append(toolPage.files, file) ELSE <<file>>
             awaited == IF toolId \in PageTools /\ ~ProbeSetsFlag(toolId, updatedFiles)
                        THEN Append(toolPage.pending,
                                    Continuation("checkAndLoadPageInfo", updatedFiles[1],
                                                 Undefined, toolId))
                        ELSE toolPage.pending
         IN  /\ Len(updatedFiles) <= MaxAppFiles
             /\ ProbesAfter(toolId, updatedFiles) <= MaxProbes
             /\ Len(awaited) <= MaxLoads
             /\ toolPage' = [toolPage EXCEPT
                               !.files = updatedFiles,
                               !.pending = awaited,
                               !.customFileName =
                                   EnsureFileName(toolId, updatedFiles, toolPage.customFileName)]
             /\ probes' = ProbesAfter(toolId, updatedFiles)
    /\ Handled("handleFileUpload", "none", <<>>)
    /\ UNCHANGED <<toolId, processedFile, inFlight, started, utilVars>>

(* checkPdfPassword resolved true for a call made under a tool other than
   Unlock: setIsEncryptedInput(true), lines 241 and 302. *)
ProbeDone ==
    /\ probes > 0
    /\ probes' = probes - 1
    /\ toolPage' = [toolPage EXCEPT !.isEncryptedInput = TRUE]
    /\ Handled("checkPdfPassword", "none", <<>>)
    /\ UNCHANGED <<toolId, processedFile, inFlight, started, utilVars>>

(* The remove button of a selected file, lines 563-566. *)
RemoveFile ==
    /\ toolId # ""
    /\ toolPage.result = NoResult
    /\ \E i \in 1..Len(toolPage.files) :
         LET rest == SubSeq(toolPage.files, 1, i - 1)
                       \o SubSeq(toolPage.files, i + 1, Len(toolPage.files))
         IN  toolPage' = [toolPage EXCEPT
                            !.files = rest,
                            !.customFileName = EnsureFileName(toolId, rest, toolPage.customFileName)]
    /\ Handled("removeFile", "none", <<>>)
    /\ UNCHANGED <<toolId, processedFile, inFlight, started, probes, utilVars>>

(* The process controls of lines 703-719 are rendered. *)
ProcessControls ==
    /\ toolId # ""
    /\ Len(toolPage.files) > 0 \/ toolId = ToolType.HtmlToPdf
    /\ ~toolPage.isEncryptedInput
    /\ toolPage.result = NoResult

(* The filename input, line 710. *)
TypeFileName ==
    /\ ProcessControls
    /\ \E name \in TypedNames \ {toolPage.customFileName} :
         toolPage' = [toolPage EXCEPT !.customFileName = name]
    /\ Handled("setCustomFileName", "none", <<>>)
    /\ UNCHANGED <<toolId, processedFile, inFlight, started, probes, utilVars>>

(* The password input of Protect and Unlock, lines 582-602. *)
TypePassword ==
    /\ toolId \in {ToolType.Protect, ToolType.Unlock}
    /\ Len(toolPage.files) > 0
    /\ ~toolPage.isEncryptedInput
    /\ toolPage.result = NoResult
    /\ \E typed \in TypedPasswords \ {toolPage.password} :
         toolPage' = [toolPage EXCEPT !.password = typed]
    /\ Handled("setPassword", "none", <<>>)
    /\ UNCHANGED <<toolId, processedFile, inFlight, started, probes, utilVars>>

(* The URL input of HTML to PDF, lines 594-604. *)
TypeUrl ==
    /\ toolId = ToolType.HtmlToPdf
    /\ toolPage.result = NoResult
    /\ \E typed \in TypedUrls \ {toolPage.htmlUrl} :
         toolPage' = [toolPage EXCEPT !.htmlUrl = typed]
    /\ Handled("setHtmlUrl", "none", <<>>)
    /\ UNCHANGED <<toolId, processedFile, inFlight, started, probes, utilVars>>

(* Start Over, lines 771-779. *)
StartOver ==
    /\ toolId # ""
    /\ toolPage.result # NoResult
    /\ toolPage' = [toolPage EXCEPT !.result = NoResult, !.files = <<>>]
    /\ processedFile' = NoFile
    /\ Handled("startOver", "none", <<>>)
    /\ UNCHANGED <<toolId, inFlight, started, probes, utilVars>>

(* lines 314-316, with the suffix test on the name as typed. *)
OutputNameCaseSensitive(name, fileList) ==
    LET outputName == IF name # "" THEN name
                      ELSE IF Len(fileList) > 0 THEN replaceFirst(fileList[1].name, ".pdf")
                      ELSE "document"
    IN  IF ~endsWith(outputName, ".pdf") THEN outputName \o ".pdf" ELSE outputName

(* lines 314-316 *)
OutputName(name, fileList) ==
    LET outputName == IF name # "" THEN name
                      ELSE IF Len(fileList) > 0 THEN replaceFirst(fileList[1].name, ".pdf")
                      ELSE "document"
    IN  IF ~endsWith(toLowerCase(outputName), ".pdf") THEN outputName \o ".pdf" ELSE outputName


(* The tools whose branch of processAction awaits a utility. *)
AwaitingTools == TOOLS \ {ToolType.Split}

(* processAction started from a button that is shown whatever the
   encrypted-input flag, and without the test of line 307. *)
processActionUngated ==
    /\ toolId # ""
    /\ Len(toolPage.files) > 0 \/ toolId = ToolType.HtmlToPdf
    /\ toolPage.result = NoResult
    /\ ~toolPage.isProcessing
    /\ LET outputName == OutputName(toolPage.customFileName, toolPage.files)
       IN  IF toolId = ToolType.Protect /\ toolPage.password = ""
             THEN /\ Handled("processAction", "alert", <<"Please enter a password to protect the file.">>)
                  /\ UNCHANGED <<toolPage, inFlight>>
           ELSE IF toolId = ToolType.HtmlToPdf /\ toolPage.htmlUrl = ""
             THEN /\ Handled("processAction", "alert", <<"Please enter a URL">>)
                  /\ UNCHANGED <<toolPage, inFlight>>
           ELSE IF toolId \notin AwaitingTools
             THEN /\ Handled("processAction", "nothing", <<>>)
                  /\ UNCHANGED <<toolPage, inFlight>>
           ELSE /\ toolPage' = [toolPage EXCEPT !.isProcessing = TRUE]
                /\ inFlight' = Append(inFlight, Operation(toolId, outputName, TRUE))
                /\ Handled("processAction", "started", <<>>)
    /\ started < MaxStarts
    /\ started' = started + 1
    /\ UNCHANGED <<toolId, processedFile, probes, utilVars>>

(* processAction, lines 306-370, up to its first await (and to its end when
   it awaits nothing), with handleHtmlToPdf's URL test, lines 373-377. *)
processAction ==
    /\ ProcessControls
    /\ ~toolPage.isProcessing
    /\ LET outputName == OutputName(toolPage.customFileName, toolPage.files)
       IN  IF toolPage.isEncryptedInput
             THEN /\ Handled("processAction", "alert", <<"Please unlock the file first by entering the password above.">>)
                  /\ UNCHANGED <<toolPage, inFlight>>
           ELSE IF toolId = ToolType.Protect /\ toolPage.password = ""
             THEN /\ Handled("processAction", "alert", <<"Please enter a password to protect the file.">>)
                  /\ UNCHANGED <<toolPage, inFlight>>
           ELSE IF toolId = ToolType.HtmlToPdf /\ toolPage.htmlUrl = ""
             THEN /\ Handled("processAction", "alert", <<"Please enter a URL">>)
                  /\ UNCHANGED <<toolPage, inFlight>>
           ELSE IF toolId \notin AwaitingTools
             THEN /\ Handled("processAction", "nothing", <<>>)
                  /\ UNCHANGED <<toolPage, inFlight>>
           ELSE /\ toolPage' = [toolPage EXCEPT !.isProcessing = TRUE]
                /\ inFlight' = Append(inFlight, Operation(toolId, outputName, TRUE))
                /\ Handled("processAction", "started", <<>>)
    /\ started < MaxStarts
    /\ started' = started + 1
    /\ UNCHANGED <<toolId, processedFile, probes, utilVars>>

(* What the awaited utility of a tool can throw. *)
UtilityErrors(tool) ==
    IF tool = ToolType.HtmlToPdf
      THEN { Err("Error", "Could not fetch website content.", "handleHtmlToPdf"),
             Err("TypeError", "Failed to fetch", "fetch") }
    ELSE IF tool = ToolType.ImageToPdf
      THEN { ReadError }
    ELSE IF tool = ToolType.Protect
      THEN { Err("Error", MsgEncryptionFailed, "protectPdf"), ReadError }
    ELSE { Err("Error", MsgGeneric, "loadPdf"), ReadError }

(* "..." + (err as Error).message: an error event has no message property *)
MessageOf(e) == IF e = ReadError THEN "undefined" ELSE e.message

AlertPrefix(tool) ==
    IF tool = ToolType.HtmlToPdf THEN "Error converting HTML: "
    ELSE "Error processing PDF: "

Without(ops, i) == SubSeq(ops, 1, i - 1) \o SubSeq(ops, i + 1, Len(ops))

(* finishProcessing, lines 392-396, and the finally of line 367: the setters
   of an unmounted ToolPage do nothing, the one of the App context works. *)
finishProcessing(op, data) ==
    /\ toolPage' = IF op.mounted
                   THEN [toolPage EXCEPT
                           !.result = [data |-> data, fileName |-> op.outputName],
                           !.isProcessing = FALSE]
                   ELSE toolPage
    /\ processedFile' = [name |-> op.outputName, data |-> data, type |-> "application/pdf"]
    /\ Handled("finishProcessing", "result", <<>>)

(* The catch blocks of lines 363-368 and 386-389 with a partial result kept. *)
failProcessingKeepsPartial(op, e) ==
    /\ toolPage' = IF op.mounted THEN [toolPage EXCEPT !.isProcessing = FALSE] ELSE toolPage
    /\ processedFile' = [name |-> op.outputName, data |-> Data(op.toolId, FALSE),
                         type |-> "application/pdf"]
    /\ Handled("catch", "alert", <<AlertPrefix(op.toolId) \o MessageOf(e)>>)

(* The catch and finally blocks of lines 363-368 and 386-389. *)
failProcessing(op, e) ==
    /\ toolPage' = IF op.mounted THEN [toolPage EXCEPT !.isProcessing = FALSE] ELSE toolPage
    /\ processedFile' = processedFile
    /\ Handled("catch", "alert", <<AlertPrefix(op.toolId) \o MessageOf(e)>>)

(* The awaited utility of an operation in flight resolves. *)
Resolved ==
    /\ \E i \in 1..Len(inFlight) :
         /\ finishProcessing(inFlight[i],
                             Data(inFlight[i].toolId, inFlight[i].toolId = ToolType.Protect))
         /\ inFlight' = Without(inFlight, i)
    /\ UNCHANGED <<toolId, started, probes, utilVars>>

(* The awaited utility of an operation in flight rejects. *)
Rejected ==
    /\ \E i \in 1..Len(inFlight) :
         /\ \E e \in UtilityErrors(inFlight[i].toolId) : failProcessing(inFlight[i], e)
         /\ inFlight' = Without(inFlight, i)
    /\ UNCHANGED <<toolId, started, probes, utilVars>>

NextApp ==
    \/ OpenTool
    \/ ChangeTool
    \/ GoHome
    \/ handleFileUpload
    \/ ProbeDone
    \/ RemoveFile
    \/ TypeFileName
    \/ TypePassword
    \/ TypeUrl
    \/ StartOver
    \/ processAction
    \/ Resolved
    \/ Rejected

(* index.html loaded PDF.js *)
InitLoaded == Init /\ pdfjsLib = TRUE

SpecApp == InitLoaded /\ [][NextApp]_vars

(* The awaited utilities return or throw. *)
SpecAppFair == SpecApp /\ WF_vars(Resolved \/ Rejected)

(***************************************************************************)
(* Organize and Rotate before the run: the file is probed and its page     *)
(* list loaded, the password prompt answered, pages moved, rotated and     *)
(* removed, the Rotate angle turned.                                       *)
(***************************************************************************)
OpenPageTool == OpenAmong(PageTools)

PageStep(how, alerts) ==
    /\ Handled("page", how, alerts)
    /\ UNCHANGED <<toolId, processedFile, inFlight, started, probes, utilVars>>

(* pending without its entry k, and with entry k replaced *)
Settled(k) == Without(toolPage.pending, k)
Continued(k, next) == [toolPage.pending EXCEPT ![k] = next]

(* checkAndLoadPageInfo after its await, lines 240-248, for a file that is
   not locked, and loadPageInfo up to its first await, lines 268-270. *)
checkAndLoadPageInfo ==
    /\ \E k \in 1..Len(toolPage.pending) :
         LET c == toolPage.pending[k]
         IN  /\ c.of = "checkAndLoadPageInfo"
             /\ toolPage' =
                  IF c.toolId \in PageTools
                    THEN [toolPage EXCEPT
                            !.loadingThumbnails = TRUE,
                            !.pending = Continued(k, Continuation("loadPageInfo", c.file,
                                                                  Undefined, c.toolId))]
                  ELSE [toolPage EXCEPT !.pending = Settled(k)]
    /\ PageStep("none", <<>>)

(* 0 .. count-1, line 275 *)
Indices(count) == [i \in 1..count |-> i - 1]

(* loadPageInfo after its awaits, lines 270-286 *)
loadPageInfo ==
    /\ \E k \in 1..Len(toolPage.pending) :
         LET c == toolPage.pending[k]
             bytes == c.file.data.doc
         IN  /\ c.of = "loadPageInfo"
             /\ \E primaryErr \in PrimaryErrorsFor(bytes, c.filePassword) :
                  LET doc == PDFDocumentLoad(bytes, c.filePassword, primaryErr)
                  IN  toolPage' =
                        IF doc.ok
                          THEN [toolPage EXCEPT
                                  !.numPages = Len(doc.pages),
                                  !.pages = Indices(Len(doc.pages)),
                                  !.loadingThumbnails = FALSE,
                                  !.pending = Settled(k)]
                        ELSE [toolPage EXCEPT !.loadingThumbnails = FALSE,
                                              !.pending = Settled(k)]
    /\ PageStep("none", <<>>)

(* The password prompt of lines 511-529 is rendered. *)
PasswordPrompt == toolId # "" /\ toolPage.isEncryptedInput

InputPasswords == {"", "pw"}

(* The input of the prompt, line 522. *)
TypeInputPassword ==
    /\ PasswordPrompt
    /\ \E typed \in InputPasswords \ {toolPage.inputPassword} :
         toolPage' = [toolPage EXCEPT !.inputPassword = typed]
    /\ PageStep("none", <<>>)

(* handleInputPasswordSubmit up to its first await, lines 251-255 *)
handleInputPasswordSubmit ==
    /\ PasswordPrompt
    /\ Len(toolPage.pending) < MaxLoads
    /\ toolPage' =
         IF Len(toolPage.files) = 0 THEN toolPage
         ELSE [toolPage EXCEPT
                 !.pending = Append(@, Continuation("handleInputPasswordSubmit",
                                                    toolPage.files[1],
                                                    <<toolPage.inputPassword>>, toolId))]
    /\ PageStep("none", <<>>)

(* handleInputPasswordSubmit after its awaits, lines 255-264 *)
passwordSubmitted ==
    /\ \E k \in 1..Len(toolPage.pending) :
         LET c == toolPage.pending[k]
             bytes == c.file.data.doc
         IN  /\ c.of = "handleInputPasswordSubmit"
             /\ \E primaryErr \in PrimaryErrorsFor(bytes, c.filePassword) :
                  IF PDFDocumentLoad(bytes, c.filePassword, primaryErr).ok
                    THEN /\ toolPage' =
                              [toolPage EXCEPT
                                 !.isEncryptedInput = FALSE,
                                 !.loadingThumbnails =
                                     IF c.toolId \in PageTools THEN TRUE ELSE @,
                                 !.pending =
                                     IF c.toolId \in PageTools
                                       THEN Continued(k, Continuation("loadPageInfo", c.file,
                                                                      c.filePassword, c.toolId))
                                     ELSE Settled(k)]
                         /\ PageStep("none", <<>>)
                  ELSE /\ toolPage' = [toolPage EXCEPT !.pending = Settled(k)]
                       /\ PageStep("alert", <<"Incorrect password">>)

(* The tool-specific controls of lines 579-700 are rendered. *)
ToolControls ==
    /\ toolId # ""
    /\ toolPage.result = NoResult
    /\ Len(toolPage.files) > 0
    /\ ~toolPage.isEncryptedInput

(* The page cards of renderOrganizer, lines 436-485, are rendered. *)
Organizer ==
    /\ ToolControls
    /\ toolId = ToolType.Organize
    /\ ~toolPage.loadingThumbnails

(* Sequence positions are one more than the indices of the code. *)
Swapped(list, i, j) == [list EXCEPT ![i + 1] = list[j + 1], ![j + 1] = list[i + 1]]

(* movePage, lines 414-422, copying the page over its neighbour. *)
movePageOverNeighbour(pageList, index, direction) ==
    IF direction = -1 /\ index > 0
      THEN [pageList EXCEPT ![index] = pageList[index + 1]]
    ELSE IF direction = 1 /\ index < Len(pageList) - 1
      THEN [pageList EXCEPT ![index + 2] = pageList[index + 1]]
    ELSE pageList

(* movePage, lines 414-422: the new page list *)
movePage(pageList, index, direction) ==
    IF direction = -1 /\ index > 0
      THEN Swapped(pageList, index, index - 1)
    ELSE IF direction = 1 /\ index < Len(pageList) - 1
      THEN Swapped(pageList, index, index + 1)
    ELSE pageList

(* rotatePage, lines 424-429, wrapping only above a full turn. *)
rotatePageWrapsLate(rotations, index) ==
    LET current == RotationAt(rotations, index)
    IN  [i \in DOMAIN rotations \cup {index} |->
           IF i = index THEN JsRemainder(current + 90, 450) ELSE rotations[i]]

(* rotatePage, lines 424-429: the new rotation map *)
rotatePage(rotations, index) ==
    LET current == RotationAt(rotations, index)
    IN  [i \in DOMAIN rotations \cup {index} |->
           IF i = index THEN JsRemainder(current + 90, 360) ELSE rotations[i]]

(* removePage, lines 431-434: the new page list *)
removePage(pageList, index) == Without(pageList, index + 1)

(* An arrow of a page card, lines 467-480; the arrow at an end is disabled. *)
ClickMovePage ==
    /\ Organizer
    /\ \E index \in 0..(Len(toolPage.pages) - 1), direction \in {-1, 1} :
         /\ direction = -1 => index # 0
         /\ direction = 1 => index # Len(toolPage.pages) - 1
         /\ toolPage' = [toolPage EXCEPT !.pages = movePage(@, index, direction)]
    /\ PageStep("none", <<>>)

(* The Rotate button of a page card, line 459. *)
ClickRotatePage ==
    /\ Organizer
    /\ \E index \in 0..(Len(toolPage.pages) - 1) :
         toolPage' = [toolPage EXCEPT !.pageRotations = rotatePage(@, index)]
    /\ PageStep("none", <<>>)

(* The Remove button of a page card, line 462. *)
ClickRemovePage ==
    /\ Organizer
    /\ \E index \in 0..(Len(toolPage.pages) - 1) :
         toolPage' = [toolPage EXCEPT !.pages = removePage(@, index)]
    /\ PageStep("none", <<>>)

(* The two buttons of the Rotate tool, lines 613-614. *)
ClickRotate ==
    /\ ToolControls
    /\ toolId = ToolType.Rotate
    /\ \E turn \in {-90, 90} :
         toolPage' = [toolPage EXCEPT !.rotation = JsRemainder(@ + turn, 360)]
    /\ PageStep("none", <<>>)

NextPages ==
    \/ OpenPageTool
    \/ GoHome
    \/ handleFileUpload
    \/ ProbeDone
    \/ checkAndLoadPageInfo
    \/ loadPageInfo
    \/ TypeInputPassword
    \/ handleInputPasswordSubmit
    \/ passwordSubmitted
    \/ ClickMovePage
    \/ ClickRotatePage
    \/ ClickRemovePage
    \/ ClickRotate

SpecPages == InitLoaded /\ [][NextPages]_vars

(***************************************************************************)
(* Properties.                                                             *)
(***************************************************************************)
LoadOps == {"compressPdf", "unlockPdf", "rotatePdf", "organizePdf", "protectPdf"}

(* The last call went through loadPdf. *)
Loaded == last.op \in LoadOps

(* The errors of the primary library whose message, lower-cased, contains
   "encrypted", "password" or "security handler". *)
EncryptionClassErrors ==
    { Err("Error", "Input document to PDFDocument.load is encrypted.", "pdf-lib"),
      Err("Error", "Password incorrect", "pdf-lib"),
      Err("Error", "Unsupported Security Handler", "pdf-lib") }

EncryptionFailure ==
    Loaded /\ ~last.load.primary.ok /\ last.load.primary.err \in EncryptionClassErrors

(* What PDF.js does with the bytes and the password of the last call. *)
SecondaryOutcome == pdfjsGetDocument(last.files[1], last.password)

Signals(message) == ~last.load.res.ok /\ last.load.res.err.message = message

(* C1: when the primary open fails with an encryption-class error, a non-empty
   password was supplied and PDF.js opens the bytes with it, loadPdf signals
   the unsupported-but-correct-password condition, never the incorrect-password
   or the generic one. *)
C1_UnsupportedButCorrect ==
    (EncryptionFailure /\ Truthy(last.password) /\ pdfjsLib /\ SecondaryOutcome.ok)
      => /\ Signals(MsgUnsupported)
         /\ ~Signals(MsgIncorrect)
         /\ ~Signals(MsgGeneric)

C1_Witness ==
    /\ EncryptionFailure
    /\ last.files[1].enc = "aes256"
    /\ last.password = <<"pw">>
    /\ pdfjsLib
    /\ last.load.consulted
    /\ last.load.secondary.ok
    /\ Signals(MsgUnsupported)

(* C2: when the primary open fails with an encryption-class error, a non-empty
   password was supplied and PDF.js rejects it with a PasswordException,
   loadPdf signals "incorrect password", neither the generic nor the
   unsupported-but-correct condition. *)
C2_IncorrectPassword ==
    (EncryptionFailure /\ Truthy(last.password) /\ pdfjsLib
       /\ ~SecondaryOutcome.ok /\ SecondaryOutcome.err.name = "PasswordException")
      => /\ Signals(MsgIncorrect)
         /\ ~Signals(MsgGeneric)
         /\ ~Signals(MsgUnsupported)

C2_Witness ==
    /\ EncryptionFailure
    /\ last.files[1].enc \in {"rc4", "aes256"}
    /\ last.password = <<"bad">>
    /\ last.load.consulted
    /\ last.load.secondary.err.name = "PasswordException"
    /\ Signals(MsgIncorrect)

OwnMessages == {MsgUnsupported, MsgIncorrect, MsgGeneric}

(* C3: a failure of the primary library is treated as an encryption failure
   exactly when its lower-cased message contains one of the three keywords;
   any other failure reaches the caller as the very same error object and
   PDF.js is not consulted for it. *)
C3_ClassificationAndPropagation ==
    (Loaded /\ ~last.load.primary.ok)
      => /\ last.load.primary.err \in EncryptionClassErrors
              <=> (last.load.res.err.origin = "loadPdf"
                     /\ last.load.res.err.message \in OwnMessages)
         /\ last.load.primary.err \notin EncryptionClassErrors
              => /\ ~last.load.res.ok
                 /\ last.load.res.err = last.load.primary.err
                 /\ ~last.load.consulted

C3_Witness ==
    /\ Loaded
    /\ ~last.load.primary.ok
    /\ last.load.primary.err.message = "Failed to parse PDF document: No PDF header found."
    /\ Truthy(last.password)
    /\ pdfjsLib
    /\ last.load.res.err = last.load.primary.err
    /\ ~last.load.consulted

(* An error of PDF.js that is not password-specific. *)
NonPasswordError(e) == e.name # "PasswordException" /\ ~mentionsPassword[e.message]

(* C4: after an encryption-class primary failure, when no password was
   supplied (undefined or the empty string, which is not forwarded to the
   primary library) or the PDF.js check is inconclusive (PDF.js missing, or
   failing with a non-password error), loadPdf signals the generic condition. *)
C4_GenericCondition ==
    /\ (Loaded /\ ~Truthy(last.password)) => last.load.options = Undefined
    /\ (EncryptionFailure
          /\ \/ ~Truthy(last.password)
             \/ ~pdfjsLib
             \/ ~SecondaryOutcome.ok /\ NonPasswordError(SecondaryOutcome.err))
         => Signals(MsgGeneric)

C4_Witness ==
    /\ EncryptionFailure
    /\ last.password = <<"">>
    /\ last.load.options = Undefined
    /\ pdfjsLib
    /\ ~last.load.consulted
    /\ Signals(MsgGeneric)

(* C5: every encryption-class failure ends in exactly one of the three
   outcomes incorrect password, unsupported-with-correct-password, generic. *)
C5_ExactlyOneOutcome ==
    EncryptionFailure
      => /\ ~last.load.res.ok
         /\ Cardinality({m \in OwnMessages : Signals(m)}) = 1

C5_Witness ==
    /\ EncryptionFailure
    /\ Truthy(last.password)
    /\ ~pdfjsLib
    /\ Signals(MsgGeneric)

(* The pages are raster images of the given source pages, one per page, in order. *)
RasterOf(outPages, srcPages) ==
    /\ Len(outPages) = Len(srcPages)
    /\ \A i \in 1..Len(srcPages) :
         outPages[i].raster /\ outPages[i].content = srcPages[i].content

(* C6: getCleanPdfBytes, and unlockPdf which returns its result: when loadPdf
   signals the unsupported-but-correct-password condition the call returns the
   output of the rasterization fallback; every other failure of loadPdf
   reaches the caller unchanged and the fallback is not run. *)
C6_FallbackOnlyOnUnsupported ==
    last.op = "unlockPdf"
      => /\ Signals(MsgUnsupported)
              => /\ last.rasterized
                 /\ last.res.ok
                 /\ last.res.bytes.enc = "none"
                 /\ RasterOf(last.res.bytes.pages, last.files[1].pages)
         /\ (~last.load.res.ok /\ ~Signals(MsgUnsupported))
              => /\ ~last.rasterized
                 /\ ~last.res.ok
                 /\ last.res.err = last.load.res.err

C6_Witness ==
    /\ last.op = "unlockPdf"
    /\ last.files[1].enc = "aes256"
    /\ Len(last.files[1].pages) = 2
    /\ Signals(MsgUnsupported)
    /\ last.rasterized
    /\ last.res.ok

RECURSIVE PagesBefore(_, _)
(* The number of pages of the files in front of file i. *)
PagesBefore(files, i) ==
    IF i = 1 THEN 0 ELSE PagesBefore(files, i - 1) + Len(files[i - 1].pages)

AllOpenable(files) == \A i \in 1..Len(files) : PrimaryOpens(files[i], Undefined)

(* C7: mergePdfs of openable inputs returns a document with the sum of the
   inputs' page counts, page j of input i being output page
   (pages of the inputs before i) + j. *)
C7_MergeOrder ==
    (last.op = "mergePdfs" /\ AllOpenable(last.files))
      => /\ last.res.ok
         /\ Len(last.res.bytes.pages) = PagesBefore(last.files, Len(last.files) + 1)
         /\ \A i \in 1..Len(last.files) :
              \A j \in 1..Len(last.files[i].pages) :
                last.res.bytes.pages[PagesBefore(last.files, i) + j] = last.files[i].pages[j]

C7_Witness ==
    /\ last.op = "mergePdfs"
    /\ Len(last.files) = 2
    /\ last.res.ok
    /\ Len(last.files[1].pages) = 2
    /\ Len(last.files[2].pages) = MaxPages
    /\ last.files[1].pages[1].content[1] = "A"
    /\ last.files[2].pages[1].content[1] = "B"
    /\ Len(last.res.bytes.pages) = 2 + MaxPages

(* C8: organizePdf returns as many pages as indices supplied, output page k
   being a copy of source page pageOrder[k]. *)
C8_OrganizeOrder ==
    (last.op = "organizePdf" /\ last.load.res.ok)
      => /\ last.res.ok
         /\ Len(last.res.bytes.pages) = Len(last.pageOrder)
         /\ \A k \in 1..Len(last.pageOrder) :
              /\ last.res.bytes.pages[k].content = last.files[1].pages[last.pageOrder[k] + 1].content
              /\ last.res.bytes.pages[k].raster = last.files[1].pages[last.pageOrder[k] + 1].raster

C8_Witness ==
    /\ last.op = "organizePdf"
    /\ last.res.ok
    /\ last.pageOrder = <<1, 0, 1>>
    /\ Len(last.files[1].pages) = 2
    /\ Len(last.res.bytes.pages) = 3

(* C9: the rotation map of organizePdf is keyed by output position: output
   page k (zero-based) has the rotation of source page pageOrder[k] plus
   rotations[k], or plus 0 without an entry; entries for positions beyond
   the output change nothing. *)
C9_RotationByOutputPosition ==
    (last.op = "organizePdf" /\ last.load.res.ok)
      => /\ last.res.ok
         /\ Len(last.res.bytes.pages) = Len(last.pageOrder)
         /\ \A k \in 0..(Len(last.pageOrder) - 1) :
              last.res.bytes.pages[k + 1].rot =
                last.files[1].pages[last.pageOrder[k + 1] + 1].rot
                  + (IF k \in DOMAIN last.rotations THEN last.rotations[k] ELSE 0)

C9_Witness ==
    /\ last.op = "organizePdf"
    /\ last.res.ok
    /\ last.pageOrder = <<1, 0>>
    /\ DOMAIN last.rotations = {0, 2}
    /\ last.rotations[0] = 90
    /\ last.rotations[2] = 270
    /\ last.files[1].pages[2].rot = 270
    /\ last.files[1].pages[1].rot = 0
    /\ last.res.bytes.pages[1].rot = 360
    /\ last.res.bytes.pages[2].rot = 0

(* C10: rotatePdf adds the delta to every page's current angle, and
   rotatePdf by d followed by rotatePdf by -d gives back every page's
   original angle modulo 360, with the pages and their order unchanged. *)
C10_RotateRoundTrip ==
    /\ (last.op = "rotatePdf" /\ last.res.ok)
         => /\ Len(last.res.bytes.pages) = Len(last.files[1].pages)
            /\ \A i \in 1..Len(last.files[1].pages) :
                 last.res.bytes.pages[i].rot = last.files[1].pages[i].rot + last.rotation
    /\ (last.op = "rotatePdf" /\ last.res.ok /\ prev.op = "rotatePdf"
          /\ last.rotation = -prev.rotation)
         => /\ Len(last.res.bytes.pages) = Len(prev.files[1].pages)
            /\ \A i \in 1..Len(prev.files[1].pages) :
                 /\ last.res.bytes.pages[i].rot % 360 = prev.files[1].pages[i].rot % 360
                 /\ last.res.bytes.pages[i].content = prev.files[1].pages[i].content

C10_Witness ==
    /\ last.op = "rotatePdf"
    /\ prev.op = "rotatePdf"
    /\ last.res.ok
    /\ prev.rotation = 90
    /\ last.rotation = -90
    /\ Len(prev.files[1].pages) = 2
    /\ prev.files[1].pages[1].rot = 270
    /\ prev.res.bytes.pages[1].rot = 360
    /\ last.res.bytes.pages[1].rot = 270

(* C11: protectPdf first normalizes the input to clean bytes with the old
   password, then encrypts those bytes with the new password as both user and
   owner password; when the encryption step yields missing or empty output it
   fails with an error, and it never returns empty bytes. *)
C11_ProtectNeverEmpty ==
    last.op = "protectPdf"
      => /\ last.clean.ok
              => /\ last.encryptArgs = <<last.clean.bytes, last.newPassword, last.newPassword>>
                 /\ last.clean.bytes.enc = "none"
                 /\ Len(last.clean.bytes.pages) = Len(pdfjsGetDocument(last.files[1], <<last.files[1].pw>>).pages)
         /\ ~last.clean.ok => (~last.res.ok /\ last.res.err = last.clean.err)
         /\ (last.clean.ok /\ last.outcome \in {"empty", "missing"})
              => (~last.res.ok /\ last.res.err.message = MsgEncryptionFailed)
         /\ last.res.ok
              => /\ last.res.bytes.struct = "ok"
                 /\ last.res.bytes.enc # "none"
                 /\ last.res.bytes.pw = last.newPassword
                 /\ last.res.bytes.pages = last.clean.bytes.pages

C11_Witness ==
    /\ last.op = "protectPdf"
    /\ last.clean.ok
    /\ last.password = <<"pw">>
    /\ last.files[1].enc = "rc4"
    /\ last.newPassword = "new"
    /\ last.outcome = "empty"
    /\ ~last.res.ok
    /\ last.res.err.message = MsgEncryptionFailed

(* The page contents of a document, in page order. *)
ContentsOf(pages) == [i \in 1..Len(pages) |-> pages[i].content]

(* unlockPdf was given the output of protectPdf and the password it set. *)
RoundTrip ==
    /\ last.op = "unlockPdf"
    /\ prev.op = "protectPdf"
    /\ last.password = <<prev.newPassword>>

SamePagesAsNormalized ==
    /\ last.res.ok
    /\ ContentsOf(last.res.bytes.pages) = ContentsOf(prev.clean.bytes.pages)

(* C12 as stated: for every openable document and non-empty password pw,
   unlockPdf(protectPdf(bytes, pw), pw) succeeds with the same page count and
   page order as the normalized original. *)
C12_RoundTripAlways == RoundTrip => SamePagesAsNormalized

(* C12 amended: the round trip succeeds with the same page count and order
   when the editing library opens the protected bytes with pw, or when it
   rejects them with an encryption-class error and the rendering library is
   present (the pages are then rasterized); with the rendering library absent
   and the encryption unreadable by the editing library it fails. *)
C12_RoundTripWhenReadable ==
    RoundTrip
      => /\ (last.load.primary.ok \/ (EncryptionFailure /\ pdfjsLib))
              => /\ SamePagesAsNormalized
                 /\ last.rasterized = ~last.load.primary.ok
         /\ (~last.load.primary.ok /\ ~pdfjsLib) => ~last.res.ok

C12_Witness ==
    /\ RoundTrip
    /\ ~last.load.primary.ok
    /\ EncryptionFailure
    /\ pdfjsLib
    /\ last.rasterized
    /\ last.res.ok
    /\ Len(last.res.bytes.pages) = 2
    /\ prev.newPassword = "new"

(* Opening the file's bytes with PDF.js and no password. *)
OpensWithoutPassword(file) == pdfjsGetDocument(file.data, Undefined)

(* C13: checkPdfPassword returns true if and only if opening the file with
   the rendering library and no password raises PasswordException; it returns
   false when the document opens, on any other error and when the rendering
   library is unavailable; it never propagates an error to its caller. *)
C13_CheckNeverPropagates ==
    last.op = "checkPdfPassword"
      => /\ last.res.ok
         /\ last.res.value
              <=> /\ pdfjsLib
                  /\ ~OpensWithoutPassword(last.file).ok
                  /\ OpensWithoutPassword(last.file).err.name = "PasswordException"

(* C14: generatePdfThumbnails never propagates an error; when the rendering
   library is missing, the document does not open or the rendering of any page
   fails it returns the empty list, never a partial one; otherwise it returns
   one thumbnail per page, in page order 1..N. *)
C14_ThumbnailsAllOrNothing ==
    last.op = "generatePdfThumbnails"
      => LET pdf == pdfjsGetDocument(last.files[1], last.password)
             failed == ~pdfjsLib \/ ~pdf.ok \/ last.failAt \in 1..Len(pdf.pages)
         IN  /\ last.res.ok
             /\ failed => last.res.value = <<>>
             /\ ~failed
                  => /\ Len(last.res.value) = Len(pdf.pages)
                     /\ \A i \in 1..Len(pdf.pages) :
                          last.res.value[i] = Thumbnail(pdf.pages[i])

C14_Witness ==
    /\ last.op = "generatePdfThumbnails"
    /\ pdfjsLib
    /\ last.files[1].enc = "aes256"
    /\ last.password = <<"pw">>
    /\ Len(last.files[1].pages) = 2
    /\ last.failAt = 2
    /\ last.res.value = <<>>

(* The inputs of the last createPdfFromImages that are JPEG or PNG by type or
   name and whose bytes are of that format, in input order. *)
IsEmbeddable(file) ==
    \/ /\ file.type = "image/jpeg" \/ endsWith(file.name, ".jpg") \/ endsWith(file.name, ".jpeg")
       /\ file.data.format = "jpeg"
    \/ /\ ~(file.type = "image/jpeg" \/ endsWith(file.name, ".jpg") \/ endsWith(file.name, ".jpeg"))
       /\ file.type = "image/png" \/ endsWith(file.name, ".png")
       /\ file.data.format = "png"

EmbeddedInputs == SelectSeq(last.files, IsEmbeddable)

OnePagePerEmbedded ==
    /\ last.res.ok
    /\ Len(last.res.bytes.pages) = Len(EmbeddedInputs)
    /\ \A k \in 1..Len(EmbeddedInputs) :
         last.res.bytes.pages[k].image = EmbeddedInputs[k].data

AllReadable(files) == \A i \in 1..Len(files) : files[i].readable

(* C15 as stated: createPdfFromImages skips an input that is neither JPEG nor
   PNG or whose embedding fails, the output has exactly one page per
   successfully embedded image in input order, and unsupported inputs never
   make the operation fail. *)
C15_SkipsAlways ==
    last.op = "createPdfFromImages" => OnePagePerEmbedded

(* C15 amended: the same, for inputs whose bytes can all be read; an input
   whose read fails, supported or not, makes the operation fail. *)
C15_SkipsWhenReadable ==
    last.op = "createPdfFromImages"
      => /\ AllReadable(last.files) => OnePagePerEmbedded
         /\ ~AllReadable(last.files) => (~last.res.ok /\ last.res.err = ReadError)

C15_Witness ==
    /\ last.op = "createPdfFromImages"
    /\ Len(last.files) = 2
    /\ last.files[1].name = "d.gif"
    /\ last.files[1].type = ""
    /\ last.files[1].readable
    /\ last.files[2].name = "c.png"
    /\ last.files[2].type = "image/jpeg"
    /\ last.files[2].data.format = "jpeg"
    /\ last.res.ok
    /\ Len(last.res.bytes.pages) = 1

(* The layout of one page: the image lies inside the page less the margin on
   every side and its centre is the page's centre. *)
InsideMargins(page) ==
    /\ LessEq(margin, page.x)
    /\ LessEq(margin, page.y)
    /\ LessEq(Plus(page.x, page.width), Minus(page.size[1], margin))
    /\ LessEq(Plus(page.y, page.height), Minus(page.size[2], margin))

Centered(page) ==
    /\ Plus(page.x, Plus(page.x, page.width)) = page.size[1]
    /\ Plus(page.y, Plus(page.y, page.height)) = page.size[2]

(* C16: with pageSize 'Fit' the page has the image's native dimensions; with
   a standard page size the scale is min(availableWidth/imgWidth,
   availableHeight/imgHeight, 1), never above 1, the drawn image lies inside
   the page less the 20-unit margin on every side, and it is centered. *)
C16_PageLayout ==
    (last.op = "createPdfFromImages" /\ last.res.ok)
      => \A k \in 1..Len(last.res.bytes.pages) :
           LET page == last.res.bytes.pages[k]
               w == Num(page.image.width)
               h == Num(page.image.height)
           IN  IF last.options.pageSize = "Fit"
                 THEN /\ page.size = <<w, h>>
                      /\ page.width = w /\ page.height = h
                 ELSE LET availW == Minus(page.size[1], Num(40))
                          availH == Minus(page.size[2], Num(40))
                      IN  /\ page.size \in
                               { <<Frac(59528, 100), Frac(84189, 100)>>,
                                 <<Frac(84189, 100), Frac(59528, 100)>>,
                                 <<Num(612), Num(792)>>, <<Num(792), Num(612)>> }
                          /\ LessEq(page.scale, Num(1))
                          /\ LessEq(page.scale, Over(availW, w))
                          /\ LessEq(page.scale, Over(availH, h))
                          /\ page.scale \in {Num(1), Over(availW, w), Over(availH, h)}
                          /\ page.width = Times(w, page.scale)
                          /\ page.height = Times(h, page.scale)
                          /\ InsideMargins(page)
                          /\ Centered(page)

C16_Witness ==
    /\ last.op = "createPdfFromImages"
    /\ last.res.ok
    /\ last.options = [pageSize |-> "A4", orientation |-> "Landscape"]
    /\ Len(last.res.bytes.pages) = 2
    /\ last.res.bytes.pages[1].image.width = 100
    /\ last.res.bytes.pages[1].scale = Num(1)
    /\ last.res.bytes.pages[2].image.height = 1200
    /\ last.res.bytes.pages[2].height = Frac(55528, 100)

(* A name ends in ".pdf", in any letter case. *)
HasPdfSuffix(name) == endsWith(toLowerCase(name), ".pdf")

(* The name processAction starts from: the name field, or the first input's
   name less ".pdf", or "document". *)
NameBase ==
    IF toolPage.customFileName # "" THEN toolPage.customFileName
    ELSE IF Len(toolPage.files) > 0 THEN replaceFirst(toolPage.files[1].name, ".pdf")
    ELSE "document"

(* The default the claim describes: the base name of the first input, or
   "merged" for Merge and "images" for Image-to-PDF, plus "_processed". *)
DefaultFor(tool, fileList) ==
    (IF tool = "merge" THEN "merged"
     ELSE IF tool = "image-to-pdf" THEN "images"
     ELSE removeExtension(fileList[1].name)) \o "_processed"

ChainedDefault == replaceFirst(processedFile.name, ".pdf") \o "_processed"

(* Every name handed on so far has the suffix. *)
NamesSuffixed ==
    /\ \A k \in 1..Len(inFlight) : HasPdfSuffix(inFlight[k].outputName)
    /\ toolPage.result # NoResult => HasPdfSuffix(toolPage.result.fileName)
    /\ processedFile # NoFile => HasPdfSuffix(processedFile.name)

(* C17 as stated: the name an operation starts with is suffixed with ".pdf",
   appended exactly when missing in every letter case; and whenever the name
   field is filled without the user typing, it gets the base name of the first
   input plus "_processed", the base being "merged" for Merge and "images"
   for Image-to-PDF. *)
C17_DefaultFromFirstInput ==
    [][ /\ Len(inFlight') > Len(inFlight)
          => LET outputName == inFlight'[Len(inFlight')].outputName
             IN  /\ HasPdfSuffix(outputName)
                 /\ outputName \in {NameBase, NameBase \o ".pdf"}
                 /\ HasPdfSuffix(NameBase) => outputName = NameBase
        /\ (/\ toolPage'.customFileName # toolPage.customFileName
            /\ toolPage'.customFileName # ""
            /\ ~(toolId' = toolId /\ toolPage'.files = toolPage.files))
          => /\ Len(toolPage'.files) > 0
             /\ toolPage'.customFileName = DefaultFor(toolId', toolPage'.files)
      ]_vars

(* C17 amended: the name an operation starts with is the name base with
   ".pdf" appended exactly when the base lacks it in every letter case.  The
   name field is filled without the user only when it is empty and files are
   selected (with the default above, from the files and the tool of that
   moment), or when a tool opens: then it becomes the chained result's name
   less its first ".pdf" plus "_processed" whatever the tool, or the default
   of the files selected before when the field was empty, or empty.  Once set
   it is kept when the first input is replaced. *)
C17_OutputNameAndDefault ==
    /\ []NamesSuffixed
    /\ [][ /\ Len(inFlight') > Len(inFlight)
             => LET outputName == inFlight'[Len(inFlight')].outputName
                IN  /\ HasPdfSuffix(outputName)
                    /\ outputName \in {NameBase, NameBase \o ".pdf"}
                    /\ HasPdfSuffix(NameBase) => outputName = NameBase
           /\ (toolPage'.customFileName # toolPage.customFileName
               /\ ~(toolId' = toolId /\ toolPage'.files = toolPage.files))
             => IF toolId' = toolId
                  THEN /\ toolPage.customFileName = ""
                       /\ Len(toolPage'.files) > 0
                       /\ toolPage'.customFileName = DefaultFor(toolId, toolPage'.files)
                ELSE IF toolId' = ""
                  THEN toolPage'.customFileName = ""
                ELSE IF Len(toolPage.files) > 0 /\ toolPage.customFileName = ""
                  THEN toolPage'.customFileName = DefaultFor(toolId', toolPage.files)
                ELSE IF processedFile # NoFile
                  THEN toolPage'.customFileName = ChainedDefault
                ELSE toolPage'.customFileName = ""
         ]_vars

C17_Witness ==
    /\ toolId = "merge"
    /\ Len(toolPage.files) = 1
    /\ toolPage.files[1].name = "a_processed.pdf"
    /\ toolPage.customFileName = "a_processed_processed"
    /\ Len(inFlight) = 1
    /\ inFlight[1].outputName = "a_processed_processed.pdf"

(* C18: when a tool operation fails nothing is retried and nothing is kept:
   the step that handles the failure leaves the displayed result and the
   chained processed file as they were, starts no operation, and raises
   exactly one alert, which carries the message of the error. *)
C18_FailureKeepsNothing ==
    [][ event' = "alert"
          => /\ toolPage'.result = toolPage.result
             /\ processedFile' = processedFile
             /\ Len(alerted') = 1
             /\ Len(inFlight') <= Len(inFlight)
             /\ Len(inFlight') < Len(inFlight)
                  => /\ started' = started
                     /\ Len(inFlight') = Len(inFlight) - 1
                     /\ \E k \in 1..Len(inFlight) :
                          \E e \in UtilityErrors(inFlight[k].toolId) :
                            /\ inFlight' = Without(inFlight, k)
                            /\ includes(alerted'[1], MessageOf(e))
                            /\ alerted'[1] \in { "Error processing PDF: " \o MessageOf(e),
                                                 "Error converting HTML: " \o MessageOf(e) }
      ]_vars

C18_Witness ==
    /\ event = "alert"
    /\ alerted = <<"Error processing PDF: Encryption failed: Output is empty.">>
    /\ toolId = "protect"
    /\ processedFile # NoFile
    /\ toolPage.result = NoResult
    /\ ~toolPage.isProcessing
    /\ inFlight = <<>>

(* C19: at most one tool operation is in flight at any time, across every
   interleaving of clicks, uploads, tool changes and completions. *)
C19_OneInFlight == Len(inFlight) <= 1

(* The isProcessing flag is set only while an operation of the mounted page
   is in flight, so the completion of that operation clears it. *)
ProcessingHasOperation ==
    toolPage.isProcessing => \E k \in 1..Len(inFlight) : inFlight[k].mounted

(* Under the fairness of SpecAppFair the flag does not stay set. *)
ProcessingEnds == toolPage.isProcessing ~> ~toolPage.isProcessing

(* C20: every run of processAction that set isProcessing comes to an end with
   isProcessing false again, and it ends in either a stored result or an
   alert. *)
C20_EndsInResultOrAlert ==
    /\ ProcessingHasOperation
    /\ event # "nothing"

(* C21: rasterizePdf handles the pages one at a time and in order: while page
   i is fetched, rendered or encoded exactly the pages 1..i-1 have been added,
   each an image of its source page; the canvas and the embedded image show
   page i and nothing else; the saved document has one page per source page,
   page k showing source page k, and is what the function returns. *)
C21_PagesInOrder ==
    (last.op = "rasterizePdf" /\ last.pc # "thrown") =>
        /\ Len(last.newPages) = (IF last.pc \in {"save", "done"} THEN Len(last.src)
                                 ELSE last.i - 1)
        /\ \A k \in 1..Len(last.newPages) :
             last.newPages[k] = Page(last.src[k].content, 0, TRUE)
        /\ last.pc \in {"render", "embed", "addPage"} =>
             /\ last.i \in 1..Len(last.src)
             /\ last.page = <<last.src[last.i]>>
        /\ last.pc = "embed" => last.canvas = <<last.src[last.i].content>>
        /\ last.pc = "addPage" => last.image = <<last.src[last.i].content>>
        /\ last.pc = "done" =>
             /\ last.res = rasterizePdf(last.files[1], last.password, pdfjsLib)
             /\ Len(last.res.bytes.pages) = Len(last.src)

C21_Witness ==
    /\ last.op = "rasterizePdf"
    /\ last.pc = "render"
    /\ last.i = 2
    /\ Len(last.newPages) = 1
    /\ last.newPages[1].content = last.src[1].content
    /\ last.page[1].content # last.src[1].content


(* C22: in getCleanPdfBytes the rasterization fallback runs only for an error
   thrown by loadPdf that signals the unsupported-but-correct-password
   condition, so only for a call with a non-empty password that PDF.js opened
   the bytes with; never for an absent or empty password, and never for an
   error thrown by the page copy or the save. *)
C22_FallbackOnlyAfterCorrectPassword ==
    (last.op = "getCleanPdfBytes" /\ last.rasterized)
      => /\ last.thrownBy = "loadPdf"
         /\ ~last.load.res.ok
         /\ last.load.res.err.message = MsgUnsupported
         /\ Truthy(last.password)
         /\ last.load.consulted
         /\ pdfjsGetDocument(last.files[1], last.password).ok
         /\ last.res = rasterizePdf(last.files[1], last.password, pdfjsLib)

C22_Witness ==
    /\ last.op = "getCleanPdfBytes"
    /\ last.rasterized
    /\ last.files[1].enc = "aes256"
    /\ last.password = <<"pw">>
    /\ last.res.ok


(* C29: once the home page or Start Over emptied processedFile it is filled
   again only by the completion of an operation the present ToolPage started
   afterwards (the page is processing and the step stores its result); an
   operation that was in flight when the user left does not fill it. *)
C29_OnlyNewOperationFills ==
    [][(processedFile = NoFile /\ processedFile' # NoFile)
         => (toolPage.isProcessing /\ toolPage'.result # NoResult)]_vars

(* C27: isEncryptedInput is set only while the first selected file is a
   PDF that needs a password to open: not for an unencrypted file selected
   afterwards, and not by the answer of a probe made for an earlier file. *)
C27_FlagOnlyForLockedFirstFile ==
    toolPage.isEncryptedInput
      => /\ Len(toolPage.files) > 0
         /\ toolPage.files[1].type = "application/pdf"
         /\ toolPage.files[1].data.locked

(* The list is the given one with the entries at positions i and j (counted
   from 1) exchanged. *)
ExchangedAt(list, given, i, j) ==
    /\ Len(list) = Len(given)
    /\ list[i] = given[j]
    /\ list[j] = given[i]
    /\ \A k \in 1..Len(given) : k \notin {i, j} => list[k] = given[k]

(* The list is the given one less its entry at position i. *)
DeletedAt(list, given, i) ==
    /\ Len(list) = Len(given) - 1
    /\ \A k \in 1..(i - 1) : list[k] = given[k]
    /\ \A k \in i..(Len(given) - 1) : list[k] = given[k + 1]

(* C23: the page list of the organizer holds indices of 0..numPages-1, none
   of them twice; movePage exchanges the entry with its neighbour in the
   direction given and leaves the list alone at the ends, removePage deletes
   the entry at the position given and keeps the order of the others. *)
C23_PageListValid ==
    LET pageList == toolPage.pages
        n == Len(pageList)
    IN  /\ \A k \in 1..n : pageList[k] \in 0..(toolPage.numPages - 1)
        /\ \A j, k \in 1..n : j # k => pageList[j] # pageList[k]
        /\ \A index \in 0..(n - 1) :
             /\ index = 0 => movePage(pageList, index, -1) = pageList
             /\ index > 0 => ExchangedAt(movePage(pageList, index, -1), pageList,
                                         index + 1, index)
             /\ index = n - 1 => movePage(pageList, index, 1) = pageList
             /\ index < n - 1 => ExchangedAt(movePage(pageList, index, 1), pageList,
                                             index + 1, index + 2)
             /\ DeletedAt(removePage(pageList, index), pageList, index + 1)

C23_Witness ==
    /\ toolId = "organize"
    /\ toolPage.numPages = MaxPages
    /\ Len(toolPage.pages) >= 2
    /\ toolPage.pages[1] > toolPage.pages[2]

(* organizePdf, lines 239-245, adds rotations[index] to the page at position
   index of pageOrder: the delta a source page of the list gets in the output. *)
DeltaOf(page, p) ==
    LET k == CHOOSE k \in 1..Len(page.pages) : page.pages[k] = p
    IN  RotationAt(page.pageRotations, k - 1)

Listed(page) == {page.pages[k] : k \in 1..Len(page.pages)}

(* C24: a rotation stays with its source page: a step that moves or removes
   a page of the organizer leaves the delta of every source page still in
   the list as it was. *)
C24_RotationFollowsPage ==
    [][(/\ toolId' = toolId
        /\ toolPage'.pending = toolPage.pending
        /\ toolPage'.pages # toolPage.pages)
         => \A p \in Listed(toolPage) \cap Listed(toolPage') :
              DeltaOf(toolPage', p) = DeltaOf(toolPage, p)]_vars

(* C25: the rotations of the organizer do not outlive the file they were
   entered for: after a step that changes the tool or selects another file no
   position carries a rotation. *)
C25_RotationsResetWithFile ==
    [][(\/ toolId' # toolId
        \/ /\ toolPage'.files # toolPage.files
           /\ Len(toolPage'.files) > 0)
         => \A index \in DOMAIN toolPage'.pageRotations :
              toolPage'.pageRotations[index] = 0]_vars

(* PDF.js opens the file of the continuation with the password it holds. *)
HoldsCorrectPassword(c) == pdfjsGetDocument(c.file.data.doc, c.filePassword).ok

(* C28: a submission of the correct password clears the encrypted-input
   flag, also for a document the editing library cannot open: the step that
   ends such a submission leaves the flag unset and raises no alert. *)
C28_CorrectPasswordClearsGate ==
    [][\A k \in 1..Len(toolPage.pending) :
         (/\ toolPage.pending[k].of = "handleInputPasswordSubmit"
          /\ HoldsCorrectPassword(toolPage.pending[k])
          /\ toolId' = toolId
          /\ \/ toolPage'.pending = Settled(k)
             \/ /\ Len(toolPage'.pending) = Len(toolPage.pending)
                /\ toolPage'.pending[k].of = "loadPageInfo")
           => /\ ~toolPage'.isEncryptedInput
              /\ alerted' = <<>>]_vars

QuarterTurns == {0, 90, 180, 270}

OrganizeRotationsLegal ==
    \A index \in DOMAIN toolPage.pageRotations :
      toolPage.pageRotations[index] \in QuarterTurns

(* C30 as stated: every entry of the Organize rotation map is one of 0, 90,
   180, 270 and so is the delta of the Rotate tool. *)
C30_RotationsInQuarterTurns ==
    /\ OrganizeRotationsLegal
    /\ toolPage.rotation \in QuarterTurns

(* C30: every entry of the Organize rotation map is one of 0, 90, 180, 270;
   the delta of the Rotate tool is a multiple of 90 of less than a full turn
   in either direction, negative after turns to the left. *)
C30_RotationsWithinFullTurn ==
    /\ OrganizeRotationsLegal
    /\ toolPage.rotation \in {q : q \in QuarterTurns} \cup {0 - q : q \in QuarterTurns}

C30_Witness ==
    /\ toolId = "rotate"
    /\ toolPage.rotation = -270

(* C26: no operation is started while the encrypted-input flag is set: a
   step taken with the flag set neither adds an operation in flight nor sets
   isProcessing, and no run of processAction reports a start. *)
C26_NoStartWhileEncrypted ==
    [][toolPage.isEncryptedInput
         => /\ Len(inFlight') <= Len(inFlight)
            /\ toolPage'.isProcessing => toolPage.isProcessing
            /\ event' # "started"]_vars

C26_Witness ==
    /\ toolId = "protect"
    /\ toolPage.isEncryptedInput
    /\ Len(toolPage.files) > 0
    /\ toolPage.password # ""
    /\ ~toolPage.isProcessing
    /\ started > 0
    /\ started < MaxStarts

====
